---- MODULE Spec2Model ----
(***************************************************************************)
(* Reliability evaluation engine of the block-diagram editor               *)
(* (src/src/calculations.ts), as a state machine: the inputs are the block *)
(* and connection collections, the steps are the engine's entry points     *)
(* calculateSystemReliability and generateReliabilityFormula, as the side  *)
(* panel calls them on every render, and isBlockConnected, as the canvas   *)
(* calls it for every block it draws.  The editor around the engine        *)
(* (src/src/App.tsx and its two components) is a second state machine on   *)
(* the same collections: one action per event handler.                     *)
(*                                                                         *)
(* Numbers.  A probability is an exact decimal fraction                     *)
(*     [d |-> limbs, e |-> k]  =  (SUM d[i] * 1000^(i-1)) / 1000^k         *)
(* (little-endian limbs of three decimal digits), so that a product of     *)
(* several factors keeps all its digits until roundTo cuts it to six       *)
(* decimals.  A value that went through roundTo is an integer number of    *)
(* millionths ("micro").  Block reliabilities are drawn from RelValues, in *)
(* millionths.  IEEE-754 representation error is not modelled: roundTo is  *)
(* round-half-up on the exact value, which is what Math.round of           *)
(* (value + Number.EPSILON) * 10^6 is meant to compute.                    *)
(***************************************************************************)
EXTENDS Integers, Sequences, FiniteSets, TLC

VARIABLES blocks, connections, result, formula, active, pc,
          selectedBlockId, connectingFrom, selectedConnectionId, keydown, now

\* The state of the editor besides the two collections: the selected block,
\* the pending connection point, the selected connection, the collections
\* that the registered keydown handler closes over, and the clock.
editorVars == <<selectedBlockId, connectingFrom, selectedConnectionId, keydown, now>>

vars == <<blocks, connections, result, formula, active, pc,
          selectedBlockId, connectingFrom, selectedConnectionId, keydown, now>>

---------------------------------------------------------------------------
(* Bounds of the model *)

\* The general inputs: up to MaxBlocks blocks, of which up to MaxReserve are
\* reserve blocks, and up to MaxConns connections of any kind among them.
MaxBlocks == 2
MaxConns == 2
MaxReserve == 1

\* The redundancy inputs: up to MaxPool blocks, main and reserve.
MaxPool == 3

\* Block reliabilities of the inputs, in millionths: 0.067 and 0.95.
RelValues == {67000, 950000}

---------------------------------------------------------------------------
(* Exact decimal arithmetic *)

DECIMAL_PLACES == 6

Base == 10 * 10 * 10

\* Limbs that hold DECIMAL_PLACES decimals.
MicroLimbs == DECIMAL_PLACES \div 3

Max2(a, b) == IF a >= b THEN a ELSE b

Limb(s, i) == IF i <= Len(s) THEN s[i] ELSE 0

Zeros(k) == [i \in 1..k |-> 0]

RECURSIVE NatToLimbs(_)
NatToLimbs(n) == IF n < Base THEN <<n>> ELSE <<n % Base>> \o NatToLimbs(n \div Base)

RECURSIVE LimbsToNat(_)
LimbsToNat(s) == IF s = <<>> THEN 0 ELSE Head(s) + Base * LimbsToNat(Tail(s))

RECURSIVE AddLimbs(_, _, _, _)
AddLimbs(x, y, i, c) ==
  IF i > Max2(Len(x), Len(y))
  THEN IF c = 0 THEN <<>> ELSE <<c>>
  ELSE LET t == Limb(x, i) + Limb(y, i) + c
       IN <<t % Base>> \o AddLimbs(x, y, i + 1, t \div Base)

\* x - y for x >= y, limb by limb with a borrow.
RECURSIVE SubLimbs(_, _, _, _)
SubLimbs(x, y, i, b) ==
  IF i > Max2(Len(x), Len(y))
  THEN <<>>
  ELSE LET t == Limb(x, i) - Limb(y, i) - b
       IN IF t < 0
          THEN <<t + Base>> \o SubLimbs(x, y, i + 1, 1)
          ELSE <<t>> \o SubLimbs(x, y, i + 1, 0)

RECURSIVE ScaleLimbs(_, _, _, _)
ScaleLimbs(x, k, i, c) ==
  IF i > Len(x)
  THEN IF c = 0 THEN <<>> ELSE <<c>>
  ELSE LET t == x[i] * k + c
       IN <<t % Base>> \o ScaleLimbs(x, k, i + 1, t \div Base)

RECURSIVE MulLimbs(_, _)
MulLimbs(x, y) ==
  IF y = <<>>
  THEN <<>>
  ELSE AddLimbs(ScaleLimbs(x, Head(y), 1, 0), <<0>> \o MulLimbs(x, Tail(y)), 1, 0)

\* The same number with k fractional limbs, k >= a.e.
Widen(a, k) == [d |-> Zeros(k - a.e) \o a.d, e |-> k]

NumOne == [d |-> <<1>>, e |-> 0]

NumZero == [d |-> <<0>>, e |-> 0]

\* A number of millionths as an exact number.
Num(micro) == [d |-> NatToLimbs(micro), e |-> MicroLimbs]

NumInt(n) == [d |-> NatToLimbs(n), e |-> 0]

Add(a, b) ==
  LET k == Max2(a.e, b.e)
  IN [d |-> AddLimbs(Widen(a, k).d, Widen(b, k).d, 1, 0), e |-> k]

\* a - b, for a >= b.
Sub(a, b) ==
  LET k == Max2(a.e, b.e)
  IN [d |-> SubLimbs(Widen(a, k).d, Widen(b, k).d, 1, 0), e |-> k]

Mul(a, b) == [d |-> MulLimbs(a.d, b.d), e |-> a.e + b.e]

\* Three-way comparison of two numbers: -1, 0, 1.
RECURSIVE CmpLimbs(_, _, _)
CmpLimbs(x, y, i) ==
  IF i = 0 THEN 0
  ELSE IF Limb(x, i) > Limb(y, i) THEN 1
  ELSE IF Limb(x, i) < Limb(y, i) THEN -1
  ELSE CmpLimbs(x, y, i - 1)

Cmp(a, b) ==
  LET k == Max2(a.e, b.e)
      x == Widen(a, k).d
      y == Widen(b, k).d
  IN CmpLimbs(x, y, Max2(Len(x), Len(y)))

NumEq(a, b) == Cmp(a, b) = 0

\* |a - b|
AbsDiff(a, b) == IF Cmp(a, b) >= 0 THEN Sub(a, b) ELSE Sub(b, a)

\* roundTo(value): the value in millionths, half rounded up.
roundTo(a) ==
  IF a.e <= MicroLimbs
  THEN LimbsToNat(Widen(a, MicroLimbs).d)
  ELSE LET cut == a.e - MicroLimbs
       IN LimbsToNat(SubSeq(a.d, cut + 1, Len(a.d)))
          + (IF 2 * Limb(a.d, cut) >= Base THEN 1 ELSE 0)

\* formatTo(value): the decimal numeral of roundTo(value); the model keeps the
\* number the numeral denotes, in millionths.
formatTo(a) == roundTo(a)

---------------------------------------------------------------------------
(* Sequences *)

SeqMap(F(_), s) == [i \in 1..Len(s) |-> F(s[i])]

\* const name = value; ...: the value computed once and handed to what follows.
Let(value, In(_)) == In(value)

Range(s) == {s[i] : i \in 1..Len(s)}

Includes(s, x) == \E i \in 1..Len(s) : s[i] = x

\* [...new Set(s)]: the first occurrence of every element, in order.
RECURSIVE Unique(_)
Unique(s) ==
  IF s = <<>> THEN <<>>
  ELSE LET front == Unique(SubSeq(s, 1, Len(s) - 1))
           last == s[Len(s)]
       IN IF Includes(front, last) THEN front ELSE Append(front, last)

RECURSIVE Flatten(_)
Flatten(ss) == IF ss = <<>> THEN <<>> ELSE Head(ss) \o Flatten(Tail(ss))

\* The numbers of s multiplied up, starting from 1.
RECURSIVE Product(_)
Product(s) == IF s = <<>> THEN NumOne ELSE Mul(Product(SubSeq(s, 1, Len(s) - 1)), s[Len(s)])

RECURSIVE Sum(_)
Sum(s) == IF s = <<>> THEN NumZero ELSE Add(Sum(SubSeq(s, 1, Len(s) - 1)), s[Len(s)])

\* s sorted by ascending Key, stable (Array.prototype.sort with a numeric comparator).
RECURSIVE SortBy(_, _)
SortBy(Key(_), s) ==
  IF Len(s) <= 1 THEN s
  ELSE LET rest == SortBy(Key, SubSeq(s, 1, Len(s) - 1))
           x == s[Len(s)]
           k == Cardinality({i \in 1..Len(rest) : Key(rest[i]) <= Key(x)})
       IN SubSeq(rest, 1, k) \o <<x>> \o SubSeq(rest, k + 1, Len(rest))

---------------------------------------------------------------------------
(* Graph Builder *)

isValidConnection(conn) ==
  \/ conn.fromSide = "right" /\ conn.toSide = "left"
  \/ conn.fromSide = "left" /\ conn.toSide = "right"

\* A faulty variant: the end recorded as from is taken for the source.
SignalSourceAsRecorded(conn) == conn.fromBlockId

\* The block whose output a valid connection leaves, and the block it enters.
SignalSource(conn) == IF conn.fromSide = "right" THEN conn.fromBlockId ELSE conn.toBlockId

SignalTarget(conn) == IF conn.fromSide = "right" THEN conn.toBlockId ELSE conn.fromBlockId

buildGraph(bs, conns) ==
  LET ids == {bs[i].id : i \in 1..Len(bs)}
      lastOf(id) == CHOOSE i \in 1..Len(bs) :
                      bs[i].id = id /\ \A j \in (i + 1)..Len(bs) : bs[j].id # id
      validConnections == SelectSeq(conns, isValidConnection)
  IN [adjacency |->
        [id \in ids |->
           SeqMap(SignalTarget,
                  SelectSeq(validConnections, LAMBDA c : SignalSource(c) = id))],
      blocks |-> [id \in ids |-> bs[lastOf(id)]]]

\* graph.adjacency.get(id) || []
AdjacencyOf(graph, id) ==
  IF id \in DOMAIN graph.adjacency THEN graph.adjacency[id] ELSE <<>>

HasBlock(graph, id) == id \in DOMAIN graph.blocks

---------------------------------------------------------------------------
(* Redundancy arithmetic *)

calculateParallelReliability(blockIds, graph) ==
  LET present == SelectSeq(blockIds, LAMBDA id : HasBlock(graph, id))
      unreliability ==
        Product(SeqMap(LAMBDA id : Sub(NumOne, Num(graph.blocks[id].reliability)), present))
  IN roundTo(Sub(NumOne, unreliability))

\* A faulty variant of DpStep: the pass made in ascending order of k, in place,
\* so that dp[k] picks up the dp[k - 1] already updated for the same block.
RECURSIVE DpStepAscendingUpTo(_, _, _)
DpStepAscendingUpTo(dp, p, i) ==
  IF i = 0 THEN <<>>
  ELSE Let(DpStepAscendingUpTo(dp, p, i - 1), LAMBDA done :
         Append(done, Add(Mul(dp[i], Sub(NumOne, p)),
                          IF i > 1 THEN Mul(done[i - 1], p) ELSE NumZero)))

DpStepAscending(dp, p) == DpStepAscendingUpTo(dp, p, Len(dp))

\* One pass of the dynamic program over dp[0..n] (a sequence indexed from 1).
DpStep(dp, p) ==
  [i \in 1..Len(dp) |->
     LET stayFail == Mul(dp[i], Sub(NumOne, p))
         becomeSuccess == IF i > 1 THEN Mul(dp[i - 1], p) ELSE NumZero
     IN Add(stayFail, becomeSuccess)]

RECURSIVE DpExact(_, _)
DpExact(probabilities, n) ==
  IF probabilities = <<>>
  THEN [i \in 1..(n + 1) |-> IF i = 1 THEN NumOne ELSE NumZero]
  ELSE DpStep(DpExact(SubSeq(probabilities, 1, Len(probabilities) - 1), n),
              probabilities[Len(probabilities)])

\* result[k + 1] = P(exactly k of n succeed), in millionths.
calculateExactKProbabilities(probabilities) ==
  SeqMap(roundTo, DpExact(probabilities, Len(probabilities)))

hasLeftToLeftConnection(aId, bId, conns) ==
  \E i \in 1..Len(conns) :
    /\ \/ conns[i].fromBlockId = aId /\ conns[i].toBlockId = bId
       \/ conns[i].fromBlockId = bId /\ conns[i].toBlockId = aId
    /\ conns[i].fromSide = "left"
    /\ conns[i].toSide = "left"

hasRightToRightConnection(aId, bId, conns) ==
  \E i \in 1..Len(conns) :
    /\ \/ conns[i].fromBlockId = aId /\ conns[i].toBlockId = bId
       \/ conns[i].fromBlockId = bId /\ conns[i].toBlockId = aId
    /\ conns[i].fromSide = "right"
    /\ conns[i].toSide = "right"

\* A faulty variant of calculateSystemWithReserve: the sum started one past
\* minRequired.
calculateSystemWithReserveAboveMin(mainChain, reserveBlocks, graph) ==
  LET allBlocks == mainChain \o reserveBlocks
      n == Len(allBlocks)
      minRequired == Len(mainChain)
      probabilities ==
        SeqMap(LAMBDA id : Num(graph.blocks[id].reliability),
               SelectSeq(allBlocks, LAMBDA id : HasBlock(graph, id)))
  IN Let(calculateExactKProbabilities(probabilities), LAMBDA exactKProbabilities :
       [reliability |->
          roundTo(Sum([j \in 1..(n - minRequired) |->
                         IF minRequired + 1 + j <= Len(exactKProbabilities)
                         THEN Num(exactKProbabilities[minRequired + 1 + j])
                         ELSE NumZero])),
        minRequired |-> minRequired,
        total |-> n,
        exactKProbabilities |-> exactKProbabilities])

calculateSystemWithReserve(mainChain, reserveBlocks, graph) ==
  LET allBlocks == mainChain \o reserveBlocks
      n == Len(allBlocks)
      minRequired == Len(mainChain)
      probabilities ==
        SeqMap(LAMBDA id : Num(graph.blocks[id].reliability),
               SelectSeq(allBlocks, LAMBDA id : HasBlock(graph, id)))
  IN Let(calculateExactKProbabilities(probabilities), LAMBDA exactKProbabilities :
       [reliability |->
          \* exactKProbabilities[k] || 0, for k = minRequired..n
          roundTo(Sum([j \in 1..(n - minRequired + 1) |->
                         IF minRequired + j <= Len(exactKProbabilities)
                         THEN Num(exactKProbabilities[minRequired + j])
                         ELSE NumZero])),
        minRequired |-> minRequired,
        total |-> n,
        exactKProbabilities |-> exactKProbabilities])

---------------------------------------------------------------------------
(* Connectivity Classifier *)

\* A faulty variant: only a connection recorded from the source to the block counts.
getValidInputsAsRecorded(blockId, conns) ==
  LET Inputs(c) ==
        IF c.toBlockId = blockId /\ c.toSide = "left" /\ c.fromSide = "right"
        THEN <<c.fromBlockId>> ELSE <<>>
  IN Unique(Flatten(SeqMap(Inputs, conns)))

\* A faulty variant: any connection that touches the block counts, whatever its sides.
getValidInputsAnySide(blockId, conns) ==
  LET Inputs(c) ==
        (IF c.toBlockId = blockId THEN <<c.fromBlockId>> ELSE <<>>)
        \o
        (IF c.fromBlockId = blockId THEN <<c.toBlockId>> ELSE <<>>)
  IN Unique(Flatten(SeqMap(Inputs, conns)))

getValidInputs(blockId, conns) ==
  LET Inputs(c) ==
        (IF c.toBlockId = blockId /\ c.toSide = "left" /\ c.fromSide = "right"
         THEN <<c.fromBlockId>> ELSE <<>>)
        \o
        (IF c.fromBlockId = blockId /\ c.fromSide = "left" /\ c.toSide = "right"
         THEN <<c.toBlockId>> ELSE <<>>)
  IN Unique(Flatten(SeqMap(Inputs, conns)))

\* A faulty variant: Math.max in place of Math.min.
MinNumberTakesMax(nonReserveBlocks) ==
  IF nonReserveBlocks = <<>> THEN 0
  ELSE CHOOSE m \in {nonReserveBlocks[i].number : i \in 1..Len(nonReserveBlocks)} :
         \A i \in 1..Len(nonReserveBlocks) : m >= nonReserveBlocks[i].number

\* Math.min over the numbers of the non-reserve blocks; 0 stands for the
\* Infinity of an empty list (block numbers are positive).
MinNumber(nonReserveBlocks) ==
  IF nonReserveBlocks = <<>> THEN 0
  ELSE CHOOSE m \in {nonReserveBlocks[i].number : i \in 1..Len(nonReserveBlocks)} :
         \A i \in 1..Len(nonReserveBlocks) : m <= nonReserveBlocks[i].number

\* blocks.find((b) => b.id === id): its index, 0 when there is none.
FindBlock(bs, id) ==
  IF \E i \in 1..Len(bs) : bs[i].id = id
  THEN CHOOSE i \in 1..Len(bs) : bs[i].id = id /\ \A j \in 1..(i - 1) : bs[j].id # id
  ELSE 0

\* A faulty variant: the bus-tie rule is left out.
isBlockConnectedWithoutBusRule(blockId, bs, conns, isReserve) ==
  LET nonReserveBlocks == SelectSeq(bs, LAMBDA b : ~b.isReserve)
      minNumber == MinNumber(nonReserveBlocks)
      thisBlock == FindBlock(bs, blockId)
      validInputs == getValidInputs(blockId, conns)
  IN IF isReserve THEN TRUE
     ELSE IF Len(nonReserveBlocks) = 1 THEN nonReserveBlocks[1].id = blockId
     ELSE IF thisBlock # 0 /\ bs[thisBlock].number = minNumber THEN TRUE
     ELSE Len(validInputs) > 0

isBlockConnected(blockId, bs, conns, isReserve) ==
  LET nonReserveBlocks == SelectSeq(bs, LAMBDA b : ~b.isReserve)
      minNumber == MinNumber(nonReserveBlocks)
      thisBlock == FindBlock(bs, blockId)
      validInputs == getValidInputs(blockId, conns)
      leftConnections ==
        SelectSeq(conns, LAMBDA c :
          /\ \/ c.fromBlockId = blockId /\ c.fromSide = "left"
             \/ c.toBlockId = blockId /\ c.toSide = "left"
          /\ c.fromSide = "left"
          /\ c.toSide = "left")
      rightConnections ==
        SelectSeq(conns, LAMBDA c :
          /\ \/ c.fromBlockId = blockId /\ c.fromSide = "right"
             \/ c.toBlockId = blockId /\ c.toSide = "right"
          /\ c.fromSide = "right"
          /\ c.toSide = "right")
      NeighborActive(leftConn) ==
        LET neighborId == IF leftConn.fromBlockId = blockId
                          THEN leftConn.toBlockId ELSE leftConn.fromBlockId
            neighborBlock == FindBlock(bs, neighborId)
        IN /\ neighborBlock # 0
           /\ ~bs[neighborBlock].isReserve
           /\ \/ bs[neighborBlock].number = minNumber
              \/ Len(getValidInputs(neighborId, conns)) > 0
  IN IF isReserve THEN TRUE
     ELSE IF Len(nonReserveBlocks) = 1 THEN nonReserveBlocks[1].id = blockId
     ELSE IF thisBlock # 0 /\ bs[thisBlock].number = minNumber THEN TRUE
     ELSE IF Len(validInputs) > 0 THEN TRUE
     ELSE /\ Len(leftConnections) > 0
          /\ Len(rightConnections) > 0
          /\ \E i \in 1..Len(leftConnections) : NeighborActive(leftConnections[i])

---------------------------------------------------------------------------
(* Series-Parallel Reducer *)

SAFETY_CAP == 200

leftNode(id) == <<"L", id>>

rightNode(id) == <<"R", id>>

\* Symbolic expressions: a leaf p_n ("p"), a numeral ("v", n in millionths),
\* [1 - (1 - a) x (1 - b) ...] ("par"), a x b ("mul"), and null.
Expr(k, n, args) == [k |-> k, n |-> n, args |-> args]

NullExpr == Expr("null", 0, <<>>)

RECURSIVE find(_, _)
find(parent, x) == IF parent[x] = x THEN x ELSE find(parent, parent[x])

union(parent, a, b) ==
  LET ra == find(parent, a)
      rb == find(parent, b)
  IN IF ra # rb THEN [parent EXCEPT ![ra] = rb] ELSE parent

\* The terminal merge one connection makes.
UnionConnection(parent, conn, componentSet) ==
  IF conn.fromBlockId \notin componentSet \/ conn.toBlockId \notin componentSet
  THEN parent
  ELSE IF conn.fromSide = "left" /\ conn.toSide = "left"
  THEN union(parent, leftNode(conn.fromBlockId), leftNode(conn.toBlockId))
  ELSE IF conn.fromSide = "right" /\ conn.toSide = "right"
  THEN union(parent, rightNode(conn.fromBlockId), rightNode(conn.toBlockId))
  ELSE IF conn.fromSide = "right" /\ conn.toSide = "left"
  THEN union(parent, rightNode(conn.fromBlockId), leftNode(conn.toBlockId))
  ELSE IF conn.fromSide = "left" /\ conn.toSide = "right"
  THEN union(parent, rightNode(conn.toBlockId), leftNode(conn.fromBlockId))
  ELSE parent

RECURSIVE UnionAll(_, _, _)
UnionAll(parent, conns, componentSet) ==
  IF conns = <<>> THEN parent
  ELSE UnionConnection(UnionAll(parent, SubSeq(conns, 1, Len(conns) - 1), componentSet),
                       conns[Len(conns)], componentSet)

TerminalClasses(component, conns) ==
  LET componentSet == Range(component)
      terminals == {leftNode(id) : id \in componentSet} \cup {rightNode(id) : id \in componentSet}
  IN UnionAll([t \in terminals |-> t], conns, componentSet)

\* One reduced edge per block, the blocks whose two terminals merged left out.
InitialSpEdges(component, graph, conns) ==
  LET parent == TerminalClasses(component, conns)
      EdgeOf(id) ==
        [from |-> find(parent, leftNode(id)),
         to |-> find(parent, rightNode(id)),
         reliability |-> roundTo(Num(graph.blocks[id].reliability)),
         generalExpr |-> Expr("p", graph.blocks[id].number, <<>>),
         valueExpr |-> Expr("v", formatTo(Num(graph.blocks[id].reliability)), <<>>)]
  IN SelectSeq(SeqMap(EdgeOf, component), LAMBDA e : e.from # e.to)

EdgeKey(e) == <<e.from, e.to>>

\* A faulty variant of MergeParallel: the parallel edges multiplied up as if
\* they were in series.
MergeParallelAsSeries(list) ==
  [from |-> list[1].from,
   to |-> list[1].to,
   reliability |-> roundTo(Product(SeqMap(LAMBDA e : Num(e.reliability), list))),
   generalExpr |-> Expr("par", 0, SeqMap(LAMBDA e : e.generalExpr, list)),
   valueExpr |-> Expr("par", 0, SeqMap(LAMBDA e : e.valueExpr, list))]

MergeParallel(list) ==
  LET unreliability ==
        Product(SeqMap(LAMBDA e : Sub(NumOne, Num(e.reliability)), list))
  IN [from |-> list[1].from,
      to |-> list[1].to,
      reliability |-> roundTo(Sub(NumOne, unreliability)),
      generalExpr |-> Expr("par", 0, SeqMap(LAMBDA e : e.generalExpr, list)),
      valueExpr |-> Expr("par", 0, SeqMap(LAMBDA e : e.valueExpr, list))]

reduceParallel(edges) ==
  LET keys == Unique(SeqMap(EdgeKey, edges))
      Bucket(key) == SelectSeq(edges, LAMBDA e : EdgeKey(e) = key)
  IN [edges |-> SeqMap(LAMBDA key : IF Len(Bucket(key)) = 1
                                     THEN Bucket(key)[1]
                                     ELSE MergeParallel(Bucket(key)),
                       keys),
      changed |-> \E i \in 1..Len(keys) : Len(Bucket(keys[i])) > 1]

\* Faulty variants of MergeSeries: the merged edge given the reliability of
\* the incoming edge alone, or of the outgoing edge alone.
MergeSeriesKeepsInput(inEdge, outEdge) ==
  [from |-> inEdge.from,
   to |-> outEdge.to,
   reliability |-> roundTo(Num(inEdge.reliability)),
   generalExpr |-> Expr("mul", 0, <<inEdge.generalExpr, outEdge.generalExpr>>),
   valueExpr |-> Expr("mul", 0, <<inEdge.valueExpr, outEdge.valueExpr>>)]

MergeSeriesKeepsOutput(inEdge, outEdge) ==
  [from |-> inEdge.from,
   to |-> outEdge.to,
   reliability |-> roundTo(Num(outEdge.reliability)),
   generalExpr |-> Expr("mul", 0, <<inEdge.generalExpr, outEdge.generalExpr>>),
   valueExpr |-> Expr("mul", 0, <<inEdge.valueExpr, outEdge.valueExpr>>)]

\* A faulty variant of MergeSeries: the two edges combined as if in parallel.
MergeSeriesAsParallel(inEdge, outEdge) ==
  [from |-> inEdge.from,
   to |-> outEdge.to,
   reliability |-> roundTo(Sub(NumOne, Mul(Sub(NumOne, Num(inEdge.reliability)),
                                           Sub(NumOne, Num(outEdge.reliability))))),
   generalExpr |-> Expr("mul", 0, <<inEdge.generalExpr, outEdge.generalExpr>>),
   valueExpr |-> Expr("mul", 0, <<inEdge.valueExpr, outEdge.valueExpr>>)]

MergeSeries(inEdge, outEdge) ==
  [from |-> inEdge.from,
   to |-> outEdge.to,
   reliability |-> roundTo(Mul(Num(inEdge.reliability), Num(outEdge.reliability))),
   generalExpr |-> Expr("mul", 0, <<inEdge.generalExpr, outEdge.generalExpr>>),
   valueExpr |-> Expr("mul", 0, <<inEdge.valueExpr, outEdge.valueExpr>>)]

\* A faulty variant: the merged edge is added and the incoming edge stays
\* behind as an edge from the interior terminal to itself.
reduceSeriesLeavesLoop(edges) ==
  LET nodes == Unique(Flatten(SeqMap(LAMBDA e : <<e.from, e.to>>, edges)))
      Ins(node) == {i \in 1..Len(edges) : edges[i].to = node}
      Outs(node) == {i \in 1..Len(edges) : edges[i].from = node}
      \* an interior terminal with one edge in and one other edge out
      Mergeable(node) ==
        /\ Cardinality(Ins(node)) = 1
        /\ Cardinality(Outs(node)) = 1
        /\ Ins(node) # Outs(node)
      hits == SelectSeq(nodes, Mergeable)
  IN IF hits = <<>>
     THEN [edges |-> edges, changed |-> FALSE]
     ELSE LET node == hits[1]
              inIdx == CHOOSE i \in Ins(node) : TRUE
              outIdx == CHOOSE i \in Outs(node) : TRUE
              kept == {i \in 1..Len(edges) : i # inIdx /\ i # outIdx}
              nextEdges == [j \in 1..Cardinality(kept) |->
                              edges[CHOOSE i \in kept :
                                      Cardinality({h \in kept : h < i}) = j - 1]]
              loop == [edges[inIdx] EXCEPT !.from = node, !.to = node]
          IN [edges |-> Append(Append(nextEdges, MergeSeries(edges[inIdx], edges[outIdx])), loop),
              changed |-> TRUE]

reduceSeries(edges) ==
  LET nodes == Unique(Flatten(SeqMap(LAMBDA e : <<e.from, e.to>>, edges)))
      Ins(node) == {i \in 1..Len(edges) : edges[i].to = node}
      Outs(node) == {i \in 1..Len(edges) : edges[i].from = node}
      \* an interior terminal with one edge in and one other edge out
      Mergeable(node) ==
        /\ Cardinality(Ins(node)) = 1
        /\ Cardinality(Outs(node)) = 1
        /\ Ins(node) # Outs(node)
      hits == SelectSeq(nodes, Mergeable)
  IN IF hits = <<>>
     THEN [edges |-> edges, changed |-> FALSE]
     ELSE LET node == hits[1]
              inIdx == CHOOSE i \in Ins(node) : TRUE
              outIdx == CHOOSE i \in Outs(node) : TRUE
              kept == {i \in 1..Len(edges) : i # inIdx /\ i # outIdx}
              nextEdges == [j \in 1..Cardinality(kept) |->
                              edges[CHOOSE i \in kept :
                                      Cardinality({h \in kept : h < i}) = j - 1]]
          IN [edges |-> Append(nextEdges, MergeSeries(edges[inIdx], edges[outIdx])),
              changed |-> TRUE]

\* One turn of the reduction loop.
ReduceOnce(edges) ==
  Let(reduceParallel(edges), LAMBDA p :
    Let(reduceSeries(p.edges), LAMBDA s :
      [edges |-> s.edges, changed |-> p.changed \/ s.changed]))

\* The loop `while (changed && safety < 200)`, entered with changed = true.
RECURSIVE ReduceLoop(_, _)
ReduceLoop(edges, safety) ==
  IF safety < SAFETY_CAP
  THEN Let(ReduceOnce(edges), LAMBDA r :
         IF r.changed
         THEN ReduceLoop(r.edges, safety + 1)
         ELSE [edges |-> r.edges, safety |-> safety + 1])
  ELSE [edges |-> edges, safety |-> safety]

\* The edges the reducer ends with (none when every block's terminals merged).
SpReduce(component, graph, conns) ==
  Let(InitialSpEdges(component, graph, conns), LAMBDA spEdges :
    IF Len(spEdges) > 0 THEN ReduceLoop(spEdges, 0).edges ELSE <<>>)

---------------------------------------------------------------------------
(* Traversals *)

\* Depth-first visit over adj (a function from nodes to neighbour sequences):
\* the visited sequence, in the order the nodes are first reached.
RECURSIVE DfsVisit(_, _, _)
RECURSIVE DfsEach(_, _, _)
DfsVisit(adj, node, visited) ==
  IF Includes(visited, node) THEN visited
  ELSE DfsEach(adj, adj[node], Append(visited, node))

DfsEach(adj, ns, visited) ==
  IF ns = <<>> THEN visited
  ELSE DfsEach(adj, Tail(ns),
               IF Includes(visited, Head(ns)) THEN visited
               ELSE DfsVisit(adj, Head(ns), visited))

\* forEach over starts: one sequence of newly visited nodes per unvisited start.
RECURSIVE DfsForest(_, _, _)
DfsForest(adj, starts, visited) ==
  IF starts = <<>> THEN <<>>
  ELSE IF Includes(visited, Head(starts)) \/ Head(starts) \notin DOMAIN adj
  THEN DfsForest(adj, Tail(starts), visited)
  ELSE Let(DfsVisit(adj, Head(starts), visited), LAMBDA after :
         <<SubSeq(after, Len(visited) + 1, Len(after))>>
         \o DfsForest(adj, Tail(starts), after))

---------------------------------------------------------------------------
(* Parallel-Path Fallback *)

isSameSideConnection(conn, side) == conn.fromSide = side /\ conn.toSide = side

areBlocksBusConnected(ids, side, conns) ==
  IF Len(ids) <= 1 THEN TRUE
  ELSE LET set == Range(ids)
           ties == SelectSeq(conns, LAMBDA c :
                     /\ isSameSideConnection(c, side)
                     /\ c.fromBlockId \in set
                     /\ c.toBlockId \in set)
           adj == [id \in set |->
                     Flatten(SeqMap(LAMBDA c :
                               (IF c.fromBlockId = id THEN <<c.toBlockId>> ELSE <<>>)
                               \o (IF c.toBlockId = id THEN <<c.fromBlockId>> ELSE <<>>),
                             ties))]
           visitedBus == DfsVisit(adj, ids[1], <<>>)
       IN Len(visitedBus) = Len(ids)

\* Signal edges of the graph that stay inside the component, per block.
InnerAdjacency(component, graph) ==
  [id \in Range(component) |->
     SelectSeq(AdjacencyOf(graph, id), LAMBDA toId : toId \in Range(component))]

inDegree(component, graph, id) ==
  LET inner == InnerAdjacency(component, graph)
      Hits(fromId) == Len(SelectSeq(inner[fromId], LAMBDA toId : toId = id))
      RECURSIVE Count(_)
      Count(k) == IF k = 0 THEN 0 ELSE Count(k - 1) + Hits(component[k])
  IN Count(Len(component))

outDegree(component, graph, id) == Len(InnerAdjacency(component, graph)[id])

entryBlocks(component, graph) ==
  SelectSeq(component, LAMBDA id : inDegree(component, graph, id) = 0)

exitBlocks(component, graph) ==
  SelectSeq(component, LAMBDA id : outDegree(component, graph, id) = 0)

\* Every simple signal path from current to target that extends path.
RECURSIVE dfsPath(_, _, _, _)
RECURSIVE dfsPathEach(_, _, _, _)
dfsPath(inner, current, target, path) ==
  IF Includes(path, current) THEN <<>>
  ELSE IF current = target THEN <<Append(path, current)>>
  ELSE dfsPathEach(inner, inner[current], target, Append(path, current))

dfsPathEach(inner, out, target, nextPath) ==
  IF out = <<>> THEN <<>>
  ELSE dfsPath(inner, Head(out), target, nextPath)
       \o dfsPathEach(inner, Tail(out), target, nextPath)

uniquePaths(component, graph) ==
  LET inner == InnerAdjacency(component, graph)
      entries == entryBlocks(component, graph)
      exits == exitBlocks(component, graph)
      FromEntry(startId) ==
        Flatten(SeqMap(LAMBDA endId : dfsPath(inner, startId, endId, <<>>), exits))
  IN Unique(Flatten(SeqMap(FromEntry, entries)))

\* A faulty variant: paths that share a block pass as well.
PathsDisjointUnchecked(paths) == Len(paths) >= 0

PathsDisjoint(paths) ==
  \A i \in 1..Len(paths) : \A j \in 1..Len(paths) :
    i >= j \/ Range(paths[i]) \cap Range(paths[j]) = {}

\* Whether the fallback applies: entry and exit buses, two or more disjoint paths.
ParallelPathsApply(component, graph, conns) ==
  /\ Let(entryBlocks(component, graph), LAMBDA entries :
          Len(entries) > 1 /\ areBlocksBusConnected(entries, "left", conns))
  /\ Let(exitBlocks(component, graph), LAMBDA exits :
          Len(exits) > 1 /\ areBlocksBusConnected(exits, "right", conns))
  /\ Let(uniquePaths(component, graph), LAMBDA paths :
          Len(paths) >= 2 /\ PathsDisjoint(paths))

ParallelPathsReliability(paths, graph) ==
  LET branchReliabilities ==
        SeqMap(LAMBDA path :
                 roundTo(Product(SeqMap(LAMBDA id : Num(graph.blocks[id].reliability), path))),
               paths)
  IN roundTo(Sub(NumOne,
                 Product(SeqMap(LAMBDA r : Sub(NumOne, Num(r)), branchReliabilities))))

---------------------------------------------------------------------------
(* Legacy Group Reducer *)

\* Blocks tied both left-left and right-right, per block, in component order.
\* A faulty variant: a shared left bus alone makes two blocks parallel.
parallelAdjLeftOnly(component, conns) ==
  [id \in Range(component) |->
     SelectSeq(component, LAMBDA other :
       /\ other # id
       /\ hasLeftToLeftConnection(id, other, conns))]

parallelAdj(component, conns) ==
  [id \in Range(component) |->
     SelectSeq(component, LAMBDA other :
       /\ other # id
       /\ hasLeftToLeftConnection(id, other, conns)
       /\ hasRightToRightConnection(id, other, conns))]

parallelGroups(component, graph, conns) ==
  SeqMap(LAMBDA group : SortBy(LAMBDA id : graph.blocks[id].number, group),
         DfsForest(parallelAdj(component, conns), component, <<>>))

\* groupIndexByBlockId
GroupIndex(groups, blockId) == CHOOSE g \in 1..Len(groups) : Includes(groups[g], blockId)

\* groupEdges: for every group the groups it signal-feeds, in insertion order.
groupEdges(component, graph, groups) ==
  LET inner == InnerAdjacency(component, graph)
      Targets(fromId) ==
        SelectSeq(SeqMap(LAMBDA toId : GroupIndex(groups, toId), inner[fromId]),
                  LAMBDA g : g # GroupIndex(groups, fromId))
  IN [g \in 1..Len(groups) |->
        Unique(Flatten(SeqMap(Targets,
                              SelectSeq(component,
                                        LAMBDA id : GroupIndex(groups, id) = g))))]

\* Kahn's algorithm: the queue, the remaining in-degrees, the order so far.
RECURSIVE TopoLoop(_, _, _, _)
RECURSIVE TopoRelax(_, _, _)
\* Decrementing the in-degree of each successor in turn: [indegree, pushed].
TopoRelax(nextSeq, indegree, pushed) ==
  IF nextSeq = <<>> THEN [indegree |-> indegree, pushed |-> pushed]
  ELSE LET next == Head(nextSeq)
           nextDeg == indegree[next] - 1
       IN TopoRelax(Tail(nextSeq), [indegree EXCEPT ![next] = nextDeg],
                    IF nextDeg = 0 THEN Append(pushed, next) ELSE pushed)

TopoLoop(edges, queue, indegree, orderedIdx) ==
  IF queue = <<>> THEN orderedIdx
  ELSE Let(TopoRelax(edges[Head(queue)], indegree, <<>>), LAMBDA r :
         TopoLoop(edges, Tail(queue) \o r.pushed, r.indegree,
                  Append(orderedIdx, Head(queue))))

orderedGroups(component, graph, groups) ==
  Let(groupEdges(component, graph, groups), LAMBDA edges :
    Let([g \in 1..Len(groups) |->
           Cardinality({h \in 1..Len(groups) : Includes(edges[h], g)})], LAMBDA indegree :
      Let(SelectSeq([g \in 1..Len(groups) |-> g], LAMBDA g : indegree[g] = 0), LAMBDA queue :
        Let(TopoLoop(edges, queue, indegree, <<>>), LAMBDA orderedIdx :
          IF Len(orderedIdx) = Len(groups)
          THEN SeqMap(LAMBDA g : groups[g], orderedIdx)
          ELSE SortBy(LAMBDA group : graph.blocks[group[1]].number, groups)))))

GroupsReliability(ordered, graph) ==
  roundTo(Product(SeqMap(LAMBDA group :
                           IF Len(group) = 1
                           THEN Num(graph.blocks[group[1]].reliability)
                           ELSE Num(calculateParallelReliability(group, graph)),
                         ordered)))

\* The tail of analyzeComponent: the grouping heuristic on its own.
LegacyGroupReducer(component, graph, conns) ==
  Let(parallelGroups(component, graph, conns), LAMBDA groups :
    Let(orderedGroups(component, graph, groups), LAMBDA ordered :
      [groups |-> groups,
       orderedGroups |-> ordered,
       reliability |-> GroupsReliability(ordered, graph),
       mode |-> "groups",
       parallelPaths |-> <<>>,
       reducedGeneral |-> NullExpr,
       reducedValues |-> NullExpr]))

---------------------------------------------------------------------------
(* Cluster analysis: the three reducers in their fallback order *)

analyzeComponent(component, graph, conns) ==
  Let(SpReduce(component, graph, conns), LAMBDA spEdges :
    IF Len(spEdges) = 1
    THEN [groups |-> <<>>,
          orderedGroups |-> <<>>,
          reliability |-> roundTo(Num(spEdges[1].reliability)),
          mode |-> "reduced-sp",
          parallelPaths |-> <<>>,
          reducedGeneral |-> spEdges[1].generalExpr,
          reducedValues |-> spEdges[1].valueExpr]
    ELSE IF ParallelPathsApply(component, graph, conns)
    THEN Let(uniquePaths(component, graph), LAMBDA paths :
           [groups |-> paths,
            orderedGroups |-> paths,
            reliability |-> ParallelPathsReliability(paths, graph),
            mode |-> "parallel-paths",
            parallelPaths |-> paths,
            reducedGeneral |-> NullExpr,
            reducedValues |-> NullExpr])
    ELSE LegacyGroupReducer(component, graph, conns))

---------------------------------------------------------------------------
(* Component Decomposer *)

\* A faulty variant: a neighbour is followed without asking whether it is a
\* non-reserve block of the graph.
ComponentAdjacencyUnguarded(graph, conns) ==
  LET Usable(id) == HasBlock(graph, id) /\ ~graph.blocks[id].isReserve
      named == {conns[i].fromBlockId : i \in 1..Len(conns)}
               \cup {conns[i].toBlockId : i \in 1..Len(conns)}
      Neighbor(blockId, conn) ==
        IF conn.fromBlockId = blockId THEN <<conn.toBlockId>>
        ELSE IF conn.toBlockId = blockId THEN <<conn.fromBlockId>>
        ELSE <<>>
  IN [blockId \in {id \in DOMAIN graph.blocks : Usable(id)} \cup named |->
        Flatten(SeqMap(LAMBDA conn : Neighbor(blockId, conn), conns))]

\* The blocks dfs moves to from a block: the other end of every connection
\* that touches it, when that is a non-reserve block of the graph.
ComponentAdjacency(graph, conns) ==
  LET Usable(id) == HasBlock(graph, id) /\ ~graph.blocks[id].isReserve
      Neighbor(blockId, conn) ==
        IF conn.fromBlockId = blockId THEN <<conn.toBlockId>>
        ELSE IF conn.toBlockId = blockId THEN <<conn.fromBlockId>>
        ELSE <<>>
  IN [blockId \in {id \in DOMAIN graph.blocks : Usable(id)} |->
        SelectSeq(Flatten(SeqMap(LAMBDA conn : Neighbor(blockId, conn), conns)), Usable)]

\* mainBlocks.forEach(dfs): one component per start block not yet visited.
findComponents(mainBlocks, graph, conns) ==
  DfsForest(ComponentAdjacency(graph, conns),
            SeqMap(LAMBDA b : b.id, mainBlocks), <<>>)

---------------------------------------------------------------------------
(* evaluateSystem *)

\* The outcome of a call that throws instead of returning.
TypeError == [thrown |-> "TypeError"]

Thrown(value) == "thrown" \in DOMAIN value

\* graph.blocks.get(id)! read for its reliability and number: a TypeError when a
\* block of the component is missing from the graph.
analyzeComponentThrows(component, graph) ==
  \E i \in 1..Len(component) : ~HasBlock(graph, component[i])

EmptyResult ==
  [systemReliability |-> 0, details |-> [chains |-> <<>>, parallelGroups |-> <<>>]]

\* A faulty variant: the least reliable component alone.
SeriesOfComponentsMinimum(componentReliabilities) ==
  CHOOSE m \in Range(componentReliabilities) :
    \A i \in 1..Len(componentReliabilities) : m <= componentReliabilities[i]

\* Several components: componentReliabilities.reduce((acc, r) => acc * r, 1), rounded.
SeriesOfComponents(componentReliabilities) ==
  roundTo(Product(SeqMap(Num, componentReliabilities)))

\* A faulty variant: a collection without main blocks is evaluated.
NothingToComputeUnlessReserve(bs, connected, mainBlocks) ==
  Len(bs) = 0 \/ Len(connected) = 0

\* The three early exits: no blocks, no active blocks, no active main blocks.
NothingToCompute(bs, connected, mainBlocks) ==
  Len(bs) = 0 \/ Len(connected) = 0 \/ Len(mainBlocks) = 0

connectedBlocks(bs, conns) ==
  SelectSeq(bs, LAMBDA b : isBlockConnected(b.id, bs, conns, b.isReserve))

ChainDetail(component, chainReliability, reserves, graph) ==
  [blocks |-> component,
   reliability |-> roundTo(Num(chainReliability)),
   reserves |-> reserves,
   withReserveReliability |->
     roundTo(Num(IF Len(reserves) > 0
                 THEN calculateSystemWithReserve(component, reserves, graph).reliability
                 ELSE chainReliability))]

ParallelGroupDetails(analysis, graph) ==
  IF analysis.mode = "parallel-paths" THEN <<>>
  ELSE SeqMap(LAMBDA group :
                [blocks |-> group,
                 reliability |-> roundTo(Num(calculateParallelReliability(group, graph)))],
              SelectSeq(analysis.groups, LAMBDA group : Len(group) > 1))

calculateSystemReliability(bs, conns) ==
  Let(connectedBlocks(bs, conns), LAMBDA connected :
  Let(SelectSeq(connected, LAMBDA b : b.isReserve), LAMBDA reserveBlocks :
  Let(SelectSeq(connected, LAMBDA b : ~b.isReserve), LAMBDA mainBlocks :
    IF NothingToCompute(bs, connected, mainBlocks)
    THEN EmptyResult
    ELSE
  Let(buildGraph(bs, conns), LAMBDA graph :
  Let(findComponents(mainBlocks, graph, conns), LAMBDA components :
  Let(SeqMap(LAMBDA c : analyzeComponent(c, graph, conns), components),
      LAMBDA componentAnalyses :
  Let(SeqMap(LAMBDA a : a.reliability, componentAnalyses), LAMBDA componentReliabilities :
  Let(SeqMap(LAMBDA b : b.id, reserveBlocks), LAMBDA reserveIds :
  Let(IF Len(reserveBlocks) > 0
      THEN roundTo(Num(calculateSystemWithReserve(SeqMap(LAMBDA b : b.id, mainBlocks),
                                                  reserveIds, graph).reliability))
      ELSE IF Len(componentReliabilities) = 0 THEN 0
      ELSE IF Len(components) = 1 THEN roundTo(Num(componentReliabilities[1]))
      ELSE SeriesOfComponents(componentReliabilities),
      LAMBDA systemReliability :
    [systemReliability |-> roundTo(Num(systemReliability)),
     details |->
       [chains |->
          [i \in 1..Len(components) |->
             ChainDetail(components[i], componentReliabilities[i], reserveIds, graph)],
        parallelGroups |->
          Flatten(SeqMap(LAMBDA a : ParallelGroupDetails(a, graph),
                         componentAnalyses))]])))))))))

\* Whether calculateSystemReliability throws: it analyses every component.
calculateSystemReliabilityThrows(bs, conns) ==
  Let(SelectSeq(connectedBlocks(bs, conns), LAMBDA b : ~b.isReserve), LAMBDA mainBlocks :
    /\ Len(mainBlocks) > 0
    /\ Let(buildGraph(bs, conns), LAMBDA graph :
           Let(findComponents(mainBlocks, graph, conns), LAMBDA components :
             \E i \in 1..Len(components) : analyzeComponentThrows(components[i], graph))))

---------------------------------------------------------------------------
(* renderFormula *)

\* "G = 0"
ZeroFormula == [general |-> Expr("zero", 0, <<>>), withValues |-> Expr("zero", 0, <<>>)]

RECURSIVE binomialCoefficient(_, _)
binomialCoefficient(n, k) ==
  IF k > n THEN 0
  ELSE IF k = 0 \/ k = n THEN 1
  ELSE binomialCoefficient(n - 1, k - 1) + binomialCoefficient(n - 1, k)

RECURSIVE Power(_, _)
Power(a, k) == IF k = 0 THEN NumOne ELSE Mul(Power(a, k - 1), a)

bernoulliProbability(n, k, p) ==
  Mul(Mul(NumInt(binomialCoefficient(n, k)), Power(p, k)), Power(Sub(NumOne, p), n - k))

\* The formula of a system with reserve blocks: G_np = P_k,n + ... ; the lines
\* P_k,n = value, then the sum of the values and the total.
ReserveFormula(mainBlocks, reserveBlocks, graph) ==
  Let(calculateSystemWithReserve(SeqMap(LAMBDA b : b.id, mainBlocks),
                                 SeqMap(LAMBDA b : b.id, reserveBlocks), graph),
      LAMBDA reserveResult :
  Let(SeqMap(LAMBDA b : b.reliability, mainBlocks \o reserveBlocks), LAMBDA probs :
    LET minRequired == reserveResult.minRequired
        total == reserveResult.total
        kValues == [j \in 1..(total - minRequired + 1) |-> minRequired + j - 1]
        allEqual == \A i \in 1..Len(probs) : probs[i] = probs[1]
        ExactK(k) == IF k + 1 <= Len(reserveResult.exactKProbabilities)
                     THEN reserveResult.exactKProbabilities[k + 1] ELSE 0
        lines ==
          SeqMap(LAMBDA k :
                   IF allEqual
                   THEN Expr("bernoulli",
                             formatTo(bernoulliProbability(total, k, Num(probs[1]))),
                             <<k, total>>)
                   ELSE Expr("v", formatTo(Num(ExactK(k))), <<k, total>>),
                 kValues)
        sumLine == SeqMap(LAMBDA k : Expr("v", formatTo(Num(ExactK(k))), <<>>), kValues)
    IN [general |-> Expr("np", total, kValues),
        withValues |-> Expr("npv", formatTo(Num(reserveResult.reliability)),
                            <<Expr("lines", 0, lines), Expr("sum", 0, sumLine)>>)]))

GeneralLeaf(graph, id) == Expr("p", graph.blocks[id].number, <<>>)

ValueLeaf(graph, id) == Expr("v", formatTo(Num(graph.blocks[id].reliability)), <<>>)

\* generalPart and valuesPart of one component.
ComponentFormula(component, graph, conns) ==
  Let(analyzeComponent(component, graph, conns), LAMBDA analysis :
    LET Branches(Leaf(_)) ==
          Expr("par", 0, SeqMap(LAMBDA path : Expr("mul", 0, SeqMap(Leaf, path)),
                                analysis.parallelPaths))
        Groups(Leaf(_)) ==
          Expr("mul", 0, SeqMap(LAMBDA group :
                                  IF Len(group) = 1 THEN Leaf(group[1])
                                  ELSE Expr("par", 0, SeqMap(Leaf, group)),
                                analysis.orderedGroups))
    IN IF analysis.mode = "reduced-sp"
       THEN [generalPart |-> analysis.reducedGeneral, valuesPart |-> analysis.reducedValues]
       ELSE IF analysis.mode = "parallel-paths"
       THEN [generalPart |-> Branches(LAMBDA id : GeneralLeaf(graph, id)),
             valuesPart |-> Branches(LAMBDA id : ValueLeaf(graph, id))]
       ELSE [generalPart |-> Groups(LAMBDA id : GeneralLeaf(graph, id)),
             valuesPart |-> Groups(LAMBDA id : ValueLeaf(graph, id))])

generateReliabilityFormula(bs, conns) ==
  Let(SelectSeq(bs, LAMBDA b : ~b.isReserve), LAMBDA mainBlocks :
  Let(SelectSeq(bs, LAMBDA b : b.isReserve), LAMBDA reserveBlocks :
  Let(buildGraph(bs, conns), LAMBDA graph :
    IF Len(bs) = 0 \/ Len(mainBlocks) = 0 THEN ZeroFormula
    ELSE IF Len(reserveBlocks) > 0 THEN ReserveFormula(mainBlocks, reserveBlocks, graph)
    ELSE
  Let(findComponents(mainBlocks, graph, conns), LAMBDA components :
  Let(SeqMap(LAMBDA c : ComponentFormula(c, graph, conns), components),
      LAMBDA componentFormulas :
    IF Len(components) > 0
    THEN [general |-> Expr("mul", 0, SeqMap(LAMBDA f : f.generalPart, componentFormulas)),
          withValues |-> Expr("mul", 0, SeqMap(LAMBDA f : f.valuesPart, componentFormulas))]
    ELSE ZeroFormula)))))

\* Whether generateReliabilityFormula throws: without reserve blocks it analyses
\* every component of the non-reserve blocks.
generateReliabilityFormulaThrows(bs, conns) ==
  Let(SelectSeq(bs, LAMBDA b : ~b.isReserve), LAMBDA mainBlocks :
    /\ Len(mainBlocks) > 0
    /\ Len(mainBlocks) = Len(bs)
    /\ Let(buildGraph(bs, conns), LAMBDA graph :
           Let(findComponents(mainBlocks, graph, conns), LAMBDA components :
             \E i \in 1..Len(components) : analyzeComponentThrows(components[i], graph))))

\* The number a with-values expression denotes: numerals multiplied ("mul"),
\* 1 - (1 - a)(1 - b)... ("par"), the total after the last "=" ("npv").
RECURSIVE ExprValue(_)
ExprValue(e) ==
  IF e.k = "v" \/ e.k = "npv" THEN Num(e.n)
  ELSE IF e.k = "mul" THEN Product(SeqMap(ExprValue, e.args))
  ELSE IF e.k = "par"
  THEN Sub(NumOne, Product(SeqMap(LAMBDA a : Sub(NumOne, ExprValue(a)), e.args)))
  ELSE NumZero

---------------------------------------------------------------------------
(* Inputs *)

Sides == {"left", "right"}

Block(id, reliability, isReserve) ==
  [id |-> id, number |-> id, reliability |-> reliability, isReserve |-> isReserve]

Connection(id, from, fromSide, to, toSide) ==
  [id |-> id, fromBlockId |-> from, toBlockId |-> to, fromSide |-> fromSide, toSide |-> toSide]

\* Block collections of n blocks, numbered in creation order, with at most
\* MaxReserve reserve blocks.
BlockCollections(n) ==
  {bs \in [1..n -> {Block(0, r, f) : r \in RelValues, f \in BOOLEAN}] :
     Cardinality({i \in 1..n : bs[i].isReserve}) <= MaxReserve}

NumberBlocks(bs) == [i \in 1..Len(bs) |-> Block(i, bs[i].reliability, bs[i].isReserve)]

\* Connection collections of k connections among the blocks 1..n.
ConnectionCollections(n, k) ==
  [1..k -> {Connection(0, a, sa, b, sb) : a \in 1..n, b \in 1..n, sa \in Sides, sb \in Sides}]

NumberConnections(cs) ==
  [i \in 1..Len(cs) |->
     Connection(i, cs[i].fromBlockId, cs[i].fromSide, cs[i].toBlockId, cs[i].toSide)]

NoResult == [systemReliability |-> -1, details |-> [chains |-> <<>>, parallelGroups |-> <<>>]]

NoFormula == [general |-> NullExpr, withValues |-> NullExpr]

---------------------------------------------------------------------------
(* The engine on bounded inputs *)

\* useState(null) of App.tsx and GridCanvas.tsx
Null == 0

NoPoint == [blockId |-> Null, side |-> "left"]

\* Nothing selected, no pending connection, the handler of the first render.
Untouched ==
  /\ selectedBlockId = Null
  /\ connectingFrom = NoPoint
  /\ selectedConnectionId = Null
  /\ keydown = [blocks |-> <<>>, connections |-> <<>>]
  /\ now = 1

Fresh ==
  /\ result = NoResult
  /\ formula = NoFormula
  /\ active = <<>>
  /\ pc = "input"
  /\ Untouched

\* Any blocks and any connections among them, self-loops and duplicates included.
Init ==
  /\ \E n \in 0..MaxBlocks : \E k \in 0..MaxConns :
       /\ blocks \in {NumberBlocks(bs) : bs \in BlockCollections(n)}
       /\ connections \in {NumberConnections(cs) : cs \in ConnectionCollections(n, k)}
  /\ Fresh

\* A faulty variant: the evaluation leaves the block collection in reverse order.
EvaluateReordersBlocks ==
  /\ pc = "input"
  /\ result' = IF calculateSystemReliabilityThrows(blocks, connections)
               THEN TypeError
               ELSE calculateSystemReliability(blocks, connections)
  /\ blocks' = [i \in 1..Len(blocks) |-> blocks[Len(blocks) + 1 - i]]
  /\ pc' = "evaluated"
  /\ UNCHANGED <<connections, formula, active>>
  /\ UNCHANGED editorVars

\* The side panel computes the system reliability of the current collections...
Evaluate ==
  /\ pc = "input"
  /\ result' = IF calculateSystemReliabilityThrows(blocks, connections)
               THEN TypeError
               ELSE calculateSystemReliability(blocks, connections)
  /\ pc' = "evaluated"
  /\ UNCHANGED <<blocks, connections, formula, active>>
  /\ UNCHANGED editorVars

\* ... and then renders the formula.
Render ==
  /\ pc = "evaluated"
  /\ formula' = IF generateReliabilityFormulaThrows(blocks, connections)
                THEN TypeError
                ELSE generateReliabilityFormula(blocks, connections)
  /\ pc' = "rendered"
  /\ UNCHANGED <<blocks, connections, result, active>>
  /\ UNCHANGED editorVars

\* The canvas draws the blocks: isBlockConnected for each of them.
Classify ==
  /\ pc = "input"
  /\ active' = [i \in 1..Len(blocks) |->
                  isBlockConnected(blocks[i].id, blocks, connections, blocks[i].isReserve)]
  /\ pc' = "classified"
  /\ UNCHANGED <<blocks, connections, result, formula>>
  /\ UNCHANGED editorVars

Next == Evaluate \/ Render \/ Classify

Spec == Init /\ [][Next]_vars

---------------------------------------------------------------------------
(* The two-path bus network: chains 1 -> 2 and 3 -> 4 -> 5, the entries 1 and 3
   tied left-left, the exits 2 and 5 tied right-right *)

\* The five connections, each recorded from its first to its second end.
TwoPathLinks ==
  << <<1, "right", 2, "left">>,
     <<3, "right", 4, "left">>,
     <<4, "right", 5, "left">>,
     <<1, "left", 3, "left">>,
     <<2, "right", 5, "right">> >>

\* Orders in which the connections may have been drawn.
TwoPathOrders ==
  { <<1, 2, 3, 4, 5>>, <<5, 4, 3, 2, 1>>, <<4, 5, 1, 2, 3>>, <<3, 2, 5, 1, 4>> }

\* Link l, recorded as drawn or from its second end to its first.
LinkConnection(l, swapped) ==
  IF swapped
  THEN Connection(0, l[3], l[4], l[1], l[2])
  ELSE Connection(0, l[1], l[2], l[3], l[4])

InitTwoPath ==
  /\ blocks \in {NumberBlocks(bs) : bs \in [1..5 -> {Block(0, r, FALSE) : r \in RelValues}]}
  /\ \E order \in TwoPathOrders : \E swapped \in [1..5 -> BOOLEAN] :
       connections =
         NumberConnections([i \in 1..5 |->
                              LinkConnection(TwoPathLinks[order[i]], swapped[order[i]])])
  /\ Fresh

SpecTwoPath == InitTwoPath /\ [][Next]_vars

---------------------------------------------------------------------------
(* Redundancy inputs: main and reserve blocks in any arrangement, the first
   few main blocks chained output to input *)

\* The i-th non-reserve block of bs.
MainIds(bs) == SeqMap(LAMBDA b : b.id, SelectSeq(bs, LAMBDA b : ~b.isReserve))

ChainConnections(bs, links, swapped) ==
  [i \in 1..links |->
     LinkConnection(<<MainIds(bs)[i], "right", MainIds(bs)[i + 1], "left">>, swapped)]

InitReserve ==
  /\ \E n \in 1..MaxPool :
       blocks \in {NumberBlocks(bs) :
                     bs \in [1..n -> {Block(0, r, f) : r \in RelValues, f \in BOOLEAN}]}
  /\ \E links \in 0..Max2(Len(MainIds(blocks)) - 1, 0) : \E swapped \in BOOLEAN :
       connections = NumberConnections(ChainConnections(blocks, links, swapped))
  /\ Fresh

SpecReserve == InitReserve /\ [][Next]_vars

---------------------------------------------------------------------------
(* The classifier on larger diagrams *)

\* The canvas classifies every block it draws; the classification does not
\* read reliabilities, so one value is enough here.
MaxDrawnBlocks == 3

MaxDrawnConns == 3

DrawnBlockCollections(n) ==
  [1..n -> {Block(0, 950000, f) : f \in BOOLEAN}]

InitClassify ==
  /\ \E n \in 1..MaxDrawnBlocks :
       /\ \E bs \in DrawnBlockCollections(n) : blocks = NumberBlocks(bs)
       /\ \E k \in 0..MaxDrawnConns :
            \E cs \in ConnectionCollections(n, k) : connections = NumberConnections(cs)
  /\ Fresh

SpecClassify == InitClassify /\ [][Classify]_vars

---------------------------------------------------------------------------
(* Inputs of any shape: any number of reserve blocks, connections that may
   name a block that does not exist *)

\* Block reliabilities of these inputs, in millionths: 0.000008 and 0.95.
ShapeValues == {8, 950000}

ShapeBlockCollections(n) ==
  [1..n -> {Block(0, r, f) : r \in ShapeValues, f \in BOOLEAN}]

\* The id after the last block's is the id of no block.
ShapeConnectionCollections(n, k) == ConnectionCollections(n + 1, k)

InitShapes ==
  /\ \E n \in 0..MaxBlocks : \E k \in 0..MaxConns :
       /\ blocks \in {NumberBlocks(bs) : bs \in ShapeBlockCollections(n)}
       /\ connections \in {NumberConnections(cs) : cs \in ShapeConnectionCollections(n, k)}
  /\ Fresh

SpecShapes == InitShapes /\ [][Next]_vars

---------------------------------------------------------------------------
(* Redundancy inputs with reliabilities at and near the ends of [0, 1] *)

\* In millionths: 0.000008, 0.95 and 1.
ExtremeValues == {8, 950000, Base * Base}

InitExtremes ==
  /\ \E n \in 1..MaxPool :
       blocks \in {NumberBlocks(bs) :
                     bs \in [1..n -> {Block(0, r, f) : r \in ExtremeValues, f \in BOOLEAN}]}
  /\ \E links \in 0..Max2(Len(MainIds(blocks)) - 1, 0) : \E swapped \in BOOLEAN :
       connections = NumberConnections(ChainConnections(blocks, links, swapped))
  /\ Fresh

SpecExtremes == InitExtremes /\ [][Next]_vars

---------------------------------------------------------------------------
(* Bus networks: a parallel pair of blocks 1 and 2 with a third block that
   feeds itself, the same pair with a signal ring of blocks 3 and 4, and the
   bridge of five blocks; each with at most MaxExtra further connections of
   any kind *)

MaxExtra == 1

BusDiagrams ==
  << [n |-> 3,
      links |-> << <<1, "left", 2, "left">>, <<1, "right", 2, "right">>,
                   <<3, "right", 3, "left">>, <<3, "left", 1, "left">> >>],
     [n |-> 4,
      links |-> << <<1, "left", 2, "left">>, <<1, "right", 2, "right">>,
                   <<3, "right", 4, "left">>, <<4, "right", 3, "left">> >>],
     [n |-> 5,
      links |-> << <<1, "left", 2, "left">>, <<4, "right", 5, "right">>,
                   <<1, "right", 3, "left">>, <<1, "right", 4, "left">>,
                   <<2, "right", 5, "left">>, <<3, "right", 5, "left">> >>] >>

InitBus ==
  /\ \E d \in 1..Len(BusDiagrams) : \E swapped \in BOOLEAN : \E k \in 0..MaxExtra :
       /\ blocks \in {NumberBlocks(bs) :
                        bs \in [1..BusDiagrams[d].n -> {Block(0, r, FALSE) : r \in RelValues}]}
       /\ \E extra \in ConnectionCollections(BusDiagrams[d].n, k) :
            connections =
              NumberConnections(
                [i \in 1..Len(BusDiagrams[d].links) |->
                   LinkConnection(BusDiagrams[d].links[i], swapped)] \o extra)
  /\ Fresh

SpecBus == InitBus /\ [][Next]_vars

---------------------------------------------------------------------------
(* Fallback networks, with reliabilities whose products need more than 6
   decimals: the bridge of five blocks as drawn, the parallel pair with a
   self-fed third block, and a chain 1 -> 2 beside block 3 between an entry
   and an exit bus with a signal ring of blocks 4 and 5 tied to the middle of
   the chain, the last two with at most MaxExtra further connections *)

FallbackValues == {333333, 500000}

FallbackDiagrams ==
  << [n |-> 5, extra |-> 0,
      links |-> << <<1, "left", 2, "left">>, <<4, "right", 5, "right">>,
                   <<1, "right", 3, "left">>, <<1, "right", 4, "left">>,
                   <<2, "right", 5, "left">>, <<3, "right", 5, "left">> >>],
     [n |-> 3, extra |-> MaxExtra,
      links |-> << <<1, "left", 2, "left">>, <<1, "right", 2, "right">>,
                   <<3, "right", 3, "left">>, <<3, "left", 1, "left">> >>],
     [n |-> 5, extra |-> MaxExtra,
      links |-> << <<1, "right", 2, "left">>, <<1, "left", 3, "left">>,
                   <<2, "right", 3, "right">>, <<4, "right", 5, "left">>,
                   <<5, "right", 4, "left">>, <<4, "left", 2, "left">> >>] >>

InitFallback ==
  /\ \E d \in 1..Len(FallbackDiagrams) : \E swapped \in BOOLEAN :
     \E k \in 0..FallbackDiagrams[d].extra :
       /\ blocks \in {NumberBlocks(bs) :
                        bs \in [1..FallbackDiagrams[d].n ->
                                  {Block(0, r, FALSE) : r \in FallbackValues}]}
       /\ \E extra \in ConnectionCollections(FallbackDiagrams[d].n, k) :
            connections =
              NumberConnections([i \in 1..Len(FallbackDiagrams[d].links) |->
                                   LinkConnection(FallbackDiagrams[d].links[i], swapped)]
                                \o extra)
  /\ Fresh

SpecFallback == InitFallback /\ [][Next]_vars

---------------------------------------------------------------------------
(* The editor (src/src/App.tsx, components/GridCanvas.tsx, LeftPanel.tsx):
   one action per event handler.  A handler works on the collections of the
   render that created it and replaces a collection as a whole (setBlocks,
   setConnections with a value, not an updater).  The handlers passed as
   props are those of the current render.  The keydown handler is registered
   by an effect with the dependency list [selectedBlockId]: it is the one of
   the last render in which the selection changed, and calls the addBlock and
   deleteSelectedBlock of that render.  Ids come from the clock, which
   advances between two events.  Positions (x, y) and dragging are left out. *)

\* The clock stops the editing after MaxCreated blocks and connections.
MaxCreated == 4

\* Reliabilities the reliability field is set to, in millionths.
EditedValues == {67000}

engineVars == <<result, formula, active, pc>>

RECURSIVE MaxNumber(_)
\* Math.max(...blocks.map((b) => b.number)), 0 for no blocks
MaxNumber(bs) ==
  IF bs = <<>> THEN 0 ELSE Max2(Head(bs).number, MaxNumber(Tail(bs)))

\* addBlock of a render whose block collection is bs
addBlock(bs) ==
  Append(bs, [id |-> now, number |-> MaxNumber(bs) + 1,
              reliability |-> 950000, isReserve |-> FALSE])

Touches(conn, id) == conn.fromBlockId = id \/ conn.toBlockId = id

\* The effect runs again after a render in which selectedBlockId changed.
Registered(selected, bs, conns) ==
  IF selected # selectedBlockId
  THEN [blocks |-> bs, connections |-> conns]
  ELSE keydown

\* The toolbar button "add block"
AddBlockButton ==
  /\ now <= MaxCreated
  /\ blocks' = addBlock(blocks)
  /\ now' = now + 1
  /\ UNCHANGED <<connections, selectedBlockId, connectingFrom, selectedConnectionId, keydown>>
  /\ UNCHANGED engineVars

\* The key A outside an input
AddBlockKey ==
  /\ now <= MaxCreated
  /\ blocks' = addBlock(keydown.blocks)
  /\ now' = now + 1
  /\ UNCHANGED <<connections, selectedBlockId, connectingFrom, selectedConnectionId, keydown>>
  /\ UNCHANGED engineVars

\* deleteSelectedBlock of a render whose collections are bs and conns
deleteSelectedBlock(bs, conns) ==
  /\ selectedBlockId # Null
  /\ blocks' = SelectSeq(bs, LAMBDA block : block.id # selectedBlockId)
  /\ connections' = SelectSeq(conns, LAMBDA conn : ~Touches(conn, selectedBlockId))
  /\ selectedBlockId' = Null
  /\ keydown' = [blocks |-> blocks', connections |-> connections']
  /\ UNCHANGED <<connectingFrom, selectedConnectionId, now>>
  /\ UNCHANGED engineVars

\* The toolbar button "delete block", disabled without a selection
DeleteBlockButton == deleteSelectedBlock(blocks, connections)

\* The key Delete or Backspace outside an input
DeleteBlockKey == deleteSelectedBlock(keydown.blocks, keydown.connections)

\* handleMouseDown on a block of the canvas, or a click on its entry in the
\* side panel
SelectBlock(id) ==
  /\ selectedBlockId' = id
  /\ keydown' = Registered(id, blocks, connections)
  /\ UNCHANGED <<blocks, connections, connectingFrom, selectedConnectionId, now>>
  /\ UNCHANGED engineVars

\* handleCanvasClick on the empty canvas
CanvasClick ==
  /\ selectedBlockId' = Null
  /\ selectedConnectionId' = Null
  /\ connectingFrom' = NoPoint
  /\ keydown' = Registered(Null, blocks, connections)
  /\ UNCHANGED <<blocks, connections, now>>
  /\ UNCHANGED engineVars

\* A faulty variant: only a connection recorded in the same direction counts.
ExistingConnectionSameDirection(conns, from, blockId, side) ==
  \E i \in 1..Len(conns) :
    /\ conns[i].fromBlockId = from.blockId
    /\ conns[i].toBlockId = blockId
    /\ conns[i].fromSide = from.side
    /\ conns[i].toSide = side

\* existingConnection of handleConnectionPointClick
ExistingConnection(conns, from, blockId, side) ==
  \E i \in 1..Len(conns) :
    \/ /\ conns[i].fromBlockId = from.blockId
       /\ conns[i].toBlockId = blockId
       /\ conns[i].fromSide = from.side
       /\ conns[i].toSide = side
    \/ /\ conns[i].fromBlockId = blockId
       /\ conns[i].toBlockId = from.blockId
       /\ conns[i].fromSide = side
       /\ conns[i].toSide = from.side

\* handleConnectionPointClick on the point of a drawn block
handleConnectionPointClick(blockId, side) ==
  /\ IF connectingFrom = NoPoint
     THEN /\ connectingFrom' = [blockId |-> blockId, side |-> side]
          /\ UNCHANGED <<connections, now>>
     ELSE IF connectingFrom.blockId = blockId
          THEN /\ connectingFrom' = NoPoint
               /\ UNCHANGED <<connections, now>>
          ELSE IF ExistingConnection(connections, connectingFrom, blockId, side)
          THEN /\ connectingFrom' = NoPoint
               /\ UNCHANGED <<connections, now>>
          ELSE /\ now <= MaxCreated
               /\ connections' = Append(connections,
                                        Connection(now, connectingFrom.blockId, connectingFrom.side,
                                                   blockId, side))
               /\ now' = now + 1
               /\ connectingFrom' = NoPoint
  /\ UNCHANGED <<blocks, selectedBlockId, selectedConnectionId, keydown>>
  /\ UNCHANGED engineVars

\* A click on the line of a connection
SelectConnection(id) ==
  /\ selectedConnectionId' = id
  /\ UNCHANGED <<blocks, connections, selectedBlockId, connectingFrom, keydown, now>>
  /\ UNCHANGED engineVars

\* deleteConnection of a render whose connection collection is conns
deleteConnection(conns, id) == SelectSeq(conns, LAMBDA conn : conn.id # id)

\* The toolbar button "delete connection", disabled without a selection
DeleteConnectionButton ==
  /\ selectedConnectionId # Null
  /\ connections' = deleteConnection(connections, selectedConnectionId)
  /\ selectedConnectionId' = Null
  /\ UNCHANGED <<blocks, selectedBlockId, connectingFrom, keydown, now>>
  /\ UNCHANGED engineVars

\* updateBlock of a render whose block collection is bs
updateBlock(bs, id, field, value) ==
  [i \in 1..Len(bs) |->
     IF bs[i].id = id
     THEN IF field = "reliability" THEN [bs[i] EXCEPT !.reliability = value]
          ELSE [bs[i] EXCEPT !.isReserve = value]
     ELSE bs[i]]

\* The block whose properties the side panel shows
SelectedBlocks == SelectSeq(blocks, LAMBDA block : block.id = selectedBlockId)

\* handleReliabilityChange and onBlur of the reliability field
ReliabilityChange(value) ==
  /\ SelectedBlocks # <<>>
  /\ blocks' = updateBlock(blocks, SelectedBlocks[1].id, "reliability", value)
  /\ UNCHANGED <<connections, selectedBlockId, connectingFrom, selectedConnectionId, keydown, now>>
  /\ UNCHANGED engineVars

RECURSIVE DeleteEach(_, _, _)
\* forEach((conn) => onDeleteConnection(conn.id)): every call filters the
\* connection collection of the render and sets the result.
DeleteEach(conns, touching, current) ==
  IF touching = <<>> THEN current
  ELSE DeleteEach(conns, Tail(touching), deleteConnection(conns, Head(touching).id))

\* onChange of the reserve checkbox
ReserveChange ==
  /\ SelectedBlocks # <<>>
  /\ LET selectedBlock == SelectedBlocks[1]
         isReserve == ~selectedBlock.isReserve
     IN /\ blocks' = updateBlock(blocks, selectedBlock.id, "isReserve", isReserve)
        /\ connections' =
             IF isReserve
             THEN DeleteEach(connections,
                             SelectSeq(connections, LAMBDA conn : Touches(conn, selectedBlock.id)),
                             connections)
             ELSE connections
  /\ UNCHANGED <<selectedBlockId, connectingFrom, selectedConnectionId, keydown, now>>
  /\ UNCHANGED engineVars

InitEditor ==
  /\ blocks = <<>>
  /\ connections = <<>>
  /\ Fresh

NextEditor ==
  \/ AddBlockButton
  \/ AddBlockKey
  \/ DeleteBlockButton
  \/ DeleteBlockKey
  \/ \E i \in 1..Len(blocks) : SelectBlock(blocks[i].id)
  \/ CanvasClick
  \/ \E i \in 1..Len(blocks) : \E side \in Sides : handleConnectionPointClick(blocks[i].id, side)
  \/ \E i \in 1..Len(connections) : SelectConnection(connections[i].id)
  \/ DeleteConnectionButton
  \/ \E value \in EditedValues : ReliabilityChange(value)
  \/ ReserveChange

SpecEditor == InitEditor /\ [][NextEditor]_vars

---------------------------------------------------------------------------
(* Properties of the evaluation *)

\* The side panel has computed the system reliability of the inputs.
Evaluated == pc \in {"evaluated", "rendered"}

NoReserve(bs) == \A i \in 1..Len(bs) : ~bs[i].isReserve

HasReserve(bs) == \E i \in 1..Len(bs) : bs[i].isReserve

HasMain(bs) == \E i \in 1..Len(bs) : ~bs[i].isReserve

\* isActive of the i-th block.
isActive(bs, conns, i) == isBlockConnected(bs[i].id, bs, conns, bs[i].isReserve)

WithReliability(bs, i, r) == [bs EXCEPT ![i].reliability = r]

\* Reliabilities a block is varied over: those of the inputs, 0 and 1.
ProbeValues == RelValues \cup {0, Base * Base}

\* |x - y| <= k millionths, for a number x and a number of millionths y.
Within(x, y, k) == Cmp(AbsDiff(x, Num(y)), Num(k)) <= 0

\* C1: without reserve blocks, the system reliability does not depend on the
\* reliability of a non-reserve block that isActive rejects, whatever
\* connections touch that block.
C1_InactiveBlockExclusion ==
  (Evaluated /\ NoReserve(blocks)) =>
    \A i \in 1..Len(blocks) :
      ~isActive(blocks, connections, i) =>
        \A r \in ProbeValues :
          calculateSystemReliability(WithReliability(blocks, i, r),
                                     connections).systemReliability
            = result.systemReliability

\* C2: when exactly one block is active and no block is a reserve, the system
\* reliability is that block's reliability rounded to 6 decimals, for every
\* connection collection.
C2_SingleActiveBlock ==
  (Evaluated /\ NoReserve(blocks)) =>
    \A i \in 1..Len(blocks) :
      (/\ isActive(blocks, connections, i)
       /\ \A j \in 1..Len(blocks) : j # i => ~isActive(blocks, connections, j))
      => result.systemReliability = roundTo(Num(blocks[i].reliability))

\* Two non-reserve blocks and exactly one connection, a signal connection
\* between the two, in either orientation and direction.
TwoBlocksOneSignal ==
  /\ Len(blocks) = 2
  /\ NoReserve(blocks)
  /\ Len(connections) = 1
  /\ isValidConnection(connections[1])
  /\ {connections[1].fromBlockId, connections[1].toBlockId} = {blocks[1].id, blocks[2].id}

\* p1 x p2 of the first two blocks.
SeriesOfTwo == Mul(Num(blocks[1].reliability), Num(blocks[2].reliability))

TwoBlocksBothTies ==
  /\ Len(blocks) = 2
  /\ NoReserve(blocks)
  /\ Len(connections) = 2
  /\ \A i \in 1..2 :
       {connections[i].fromBlockId, connections[i].toBlockId} = {blocks[1].id, blocks[2].id}
  /\ \E i \in 1..2 : isSameSideConnection(connections[i], "left")
  /\ \E i \in 1..2 : isSameSideConnection(connections[i], "right")

\* 1 - (1 - p1)(1 - p2) of the first two blocks.
ParallelOfTwo ==
  Sub(NumOne, Mul(Sub(NumOne, Num(blocks[1].reliability)),
                  Sub(NumOne, Num(blocks[2].reliability))))

Ends(c) == {<<c.fromBlockId, c.fromSide>>, <<c.toBlockId, c.toSide>>}

\* Five non-reserve blocks joined by exactly the five links of the two-path
\* network.
IsTwoPathNetwork ==
  /\ Len(blocks) = 5
  /\ NoReserve(blocks)
  /\ \A i \in 1..5 : blocks[i].id = i
  /\ Len(connections) = 5
  /\ {Ends(connections[i]) : i \in 1..5}
       = {{<<TwoPathLinks[l][1], TwoPathLinks[l][2]>>, <<TwoPathLinks[l][3], TwoPathLinks[l][4]>>} :
            l \in 1..5}

\* 1 - (1 - p1 p2)(1 - p3 p4 p5), exactly.
TwoPathExact ==
  LET P(i) == Num(blocks[i].reliability)
  IN Sub(NumOne, Mul(Sub(NumOne, Mul(P(1), P(2))),
                     Sub(NumOne, Mul(Mul(P(3), P(4)), P(5)))))

PoolMain == SelectSeq(connectedBlocks(blocks, connections), LAMBDA b : ~b.isReserve)

PoolReserves == SelectSeq(blocks, LAMBDA b : b.isReserve)

PoolProbabilities == SeqMap(LAMBDA b : Num(b.reliability), PoolMain \o PoolReserves)

\* The probability that exactly the blocks of S succeed.
SubsetProbability(ps, S) ==
  Product([i \in 1..Len(ps) |-> IF i \in S THEN ps[i] ELSE Sub(NumOne, ps[i])])

RECURSIVE SumOverSubsets(_, _)
SumOverSubsets(ps, sets) ==
  IF sets = {} THEN NumZero
  ELSE LET S == CHOOSE S \in sets : TRUE
       IN Add(SubsetProbability(ps, S), SumOverSubsets(ps, sets \ {S}))

\* P(exactly k of the blocks succeed), by enumerating the subsets of size k.
ExactlyK(ps, k) ==
  SumOverSubsets(ps, {S \in SUBSET (1..Len(ps)) : Cardinality(S) = k})

\* P(at least m of the blocks succeed).
AtLeast(ps, m) == Sum([j \in 1..(Len(ps) - m + 1) |-> ExactlyK(ps, m + j - 1)])

\* The dynamic program gives the distribution of the enumeration.
DpIsEnumeration(ps) ==
  \A k \in 0..Len(ps) : NumEq(DpExact(ps, Len(ps))[k + 1], ExactlyK(ps, k))

\* C6, as stated: with at least one reserve block the system reliability is
\* P(at least m of the m + r pooled blocks succeed), m the active non-reserve
\* blocks and r the reserve blocks, and the dynamic program equals the
\* enumeration of subsets.
C6_KOutOfN_AsStated ==
  (Evaluated /\ HasReserve(blocks)) =>
    /\ result.systemReliability = roundTo(AtLeast(PoolProbabilities, Len(PoolMain)))
    /\ DpIsEnumeration(PoolProbabilities)

\* C6: with at least one reserve block and at least one non-reserve block, the
\* dynamic program equals the enumeration of subsets, the system reliability
\* is the sum over k = m..m+r of P(exactly k) each rounded to 6 decimals, and
\* it is within (r + 1) / 2 millionths of P(at least m of m + r).
C6_KOutOfN ==
  (Evaluated /\ HasReserve(blocks) /\ HasMain(blocks)) =>
    LET ps == PoolProbabilities
        m == Len(PoolMain)
        r == Len(PoolReserves)
    IN /\ DpIsEnumeration(ps)
       /\ NumEq(Num(result.systemReliability),
                Sum([j \in 1..(r + 1) |-> Num(roundTo(ExactlyK(ps, m + j - 1)))]))
       /\ Cmp(Mul(NumInt(2), AbsDiff(AtLeast(ps, m), Num(result.systemReliability))),
              Num(r + 1)) <= 0

\* Two chained main blocks and a reserve block of another reliability.
C6_Witness ==
  /\ pc = "evaluated"
  /\ Len(PoolMain) = 2
  /\ Len(PoolReserves) = 1
  /\ Len(connections) = 1
  /\ PoolMain[1].reliability # PoolReserves[1].reliability
  /\ result.systemReliability > 0
  /\ DpIsEnumeration(PoolProbabilities)

\* Every pooled block has the reliability of the first.
PoolAllEqual ==
  \A i \in 1..Len(PoolProbabilities) : NumEq(PoolProbabilities[i], PoolProbabilities[1])

\* The terms C(n,k) p^k (1-p)^(n-k) for k = minRequired..n.
BinomialTerms ==
  LET n == Len(PoolProbabilities)
      minRequired == Len(PoolMain)
  IN [j \in 1..(n - minRequired + 1) |->
        bernoulliProbability(n, minRequired + j - 1, PoolProbabilities[1])]

\* C7, as stated: when all n pooled blocks have the same reliability p, the
\* system reliability is the binomial sum over k = minRequired..n rounded to 6
\* decimals.
C7_EqualReliabilities_AsStated ==
  (Evaluated /\ HasReserve(blocks) /\ PoolAllEqual) =>
    result.systemReliability = roundTo(Sum(BinomialTerms))

\* C7: when all n pooled blocks have the same reliability p and there is a
\* non-reserve block, the system reliability is the sum of the binomial terms
\* for k = minRequired..n each rounded to 6 decimals, within
\* (n - minRequired + 1) / 2 millionths of the binomial sum.
C7_EqualReliabilities ==
  (Evaluated /\ HasReserve(blocks) /\ HasMain(blocks) /\ PoolAllEqual) =>
    /\ NumEq(Num(result.systemReliability),
             Sum(SeqMap(LAMBDA t : Num(roundTo(t)), BinomialTerms)))
    /\ Cmp(Mul(NumInt(2), AbsDiff(Sum(BinomialTerms), Num(result.systemReliability))),
           Num(Len(BinomialTerms))) <= 0

\* Three equal blocks, two of them main: rounding each term moves the result.
C7_Witness ==
  /\ pc = "evaluated"
  /\ HasReserve(blocks)
  /\ PoolAllEqual
  /\ Len(PoolProbabilities) = 3
  /\ Len(PoolMain) = 2
  /\ result.systemReliability # roundTo(Sum(BinomialTerms))

\* C8: for every cluster that the Series-Parallel Reducer collapses to a
\* single edge, the Legacy Group Reducer gives a reliability within 1e-6 of it.
C8_ReductionPathAgreement ==
  Evaluated =>
    \A i \in 1..Len(result.details.chains) :
      LET component == result.details.chains[i].blocks
          graph == buildGraph(blocks, connections)
      IN Let(SpReduce(component, graph, connections), LAMBDA spEdges :
           Len(spEdges) = 1 =>
             Within(Num(LegacyGroupReducer(component, graph, connections).reliability),
                    roundTo(Num(spEdges[1].reliability)), 1))

\* C9: the value of the with-values formula is within 1e-6 of the system
\* reliability, for every block and connection collection.
C9_FormulaMatchesEvaluation ==
  pc = "rendered" => Within(ExprValue(formula.withValues), result.systemReliability, 1)

\* C10: every cluster holds only non-reserve blocks that are active, and the
\* clusters are pairwise disjoint.
C10_ClustersActiveAndDisjoint ==
  Evaluated =>
    LET chains == result.details.chains
    IN /\ \A i \in 1..Len(chains) : \A id \in Range(chains[i].blocks) :
            /\ FindBlock(blocks, id) # 0
            /\ ~blocks[FindBlock(blocks, id)].isReserve
            /\ isBlockConnected(id, blocks, connections, FALSE)
       /\ \A i \in 1..Len(chains) : \A j \in 1..Len(chains) :
            i # j => Range(chains[i].blocks) \cap Range(chains[j].blocks) = {}

---------------------------------------------------------------------------
(* Properties of degenerate inputs and of the classifier *)

\* The connections with one more: a self-loop on block id, from side a to side b.
WithSelfLoop(conns, id, a, b) ==
  Append(conns, Connection(Len(conns) + 1, id, a, id, b))

\* C11: a self-loop connection, on any block and with any combination of
\* sides, is ignored: adding it to the connection collection leaves the system
\* reliability unchanged.
C11_SelfLoopIgnored ==
  Evaluated =>
    \A i \in 1..Len(blocks) : \A a \in Sides : \A b \in Sides :
      calculateSystemReliability(blocks, WithSelfLoop(connections, blocks[i].id, a, b)
                                ).systemReliability
        = result.systemReliability

Classified == pc = "classified"

NonReserveCount(bs) == Len(SelectSeq(bs, LAMBDA b : ~b.isReserve))

\* Some connection ties the given side of block x to the same side of block y.
Tied(conns, side, x, y) ==
  \E i \in 1..Len(conns) :
    /\ conns[i].fromSide = side
    /\ conns[i].toSide = side
    /\ \/ conns[i].fromBlockId = x /\ conns[i].toBlockId = y
       \/ conns[i].fromBlockId = y /\ conns[i].toBlockId = x

TiedToAnother(bs, conns, side, x) ==
  \E j \in 1..Len(bs) : bs[j].id # x /\ Tied(conns, side, x, bs[j].id)

SignalInto(conns, b, src) ==
  \E i \in 1..Len(conns) :
    \/ /\ conns[i].fromBlockId = src /\ conns[i].fromSide = "right"
       /\ conns[i].toBlockId = b /\ conns[i].toSide = "left"
    \/ /\ conns[i].fromBlockId = b /\ conns[i].fromSide = "left"
       /\ conns[i].toBlockId = src /\ conns[i].toSide = "right"

\* Any connection from a right terminal to the block's left terminal.
HasSignalInput(bs, conns, b) ==
  \E i \in 1..Len(conns) :
    \/ conns[i].toBlockId = b /\ conns[i].toSide = "left" /\ conns[i].fromSide = "right"
    \/ conns[i].fromBlockId = b /\ conns[i].fromSide = "left" /\ conns[i].toSide = "right"

\* Block i is a non-reserve block and no non-reserve block has a smaller number.
IsFirstMain(bs, i) ==
  /\ ~bs[i].isReserve
  /\ \A j \in 1..Len(bs) : ~bs[j].isReserve => bs[i].number <= bs[j].number

IsProbability(x) == x \in 0..(Base * Base)

\* C13: whenever all block reliabilities lie in [0, 1], every probability the
\* evaluation surfaces -- the system reliability, each chain's reliability and
\* reliability with reserve, each parallel group's reliability -- lies in
\* [0, 1] and is a multiple of 10^-6, the redundancy case included.
C13_ProbabilitiesInUnitInterval ==
  Evaluated /\ (\A i \in 1..Len(blocks) : IsProbability(blocks[i].reliability)) =>
    /\ IsProbability(result.systemReliability)
    /\ \A i \in 1..Len(result.details.chains) :
         /\ IsProbability(result.details.chains[i].reliability)
         /\ IsProbability(result.details.chains[i].withReserveReliability)
    /\ \A i \in 1..Len(result.details.parallelGroups) :
         IsProbability(result.details.parallelGroups[i].reliability)

Rendered == pc = "rendered"

BlockIds(bs) == {bs[i].id : i \in 1..Len(bs)}

\* C14: evaluation, rendering and classification return a value and never
\* throw, whatever the shape of the input -- connections naming blocks that do
\* not exist, self-loops, duplicate connections, cycles of bus ties or of
\* signals, reserve blocks only: the system reliability is a number, the
\* formula is a pair of texts, the classification is a boolean.
C14_NeverThrows ==
  /\ Evaluated => ~Thrown(result) /\ result.systemReliability \in Nat
  /\ Rendered =>
       /\ ~Thrown(formula)
       /\ formula.general # NullExpr
       /\ formula.withValues # NullExpr
  /\ Classified => active \in [1..Len(blocks) -> BOOLEAN]

\* A diagram evaluated and rendered to a positive reliability although one of
\* its connections joins an active block to a block that does not exist.
C14_Witness ==
  /\ Rendered
  /\ result.systemReliability > 0
  /\ \E i \in 1..Len(connections) : \E b \in 1..Len(blocks) :
       /\ connections[i].fromBlockId \notin BlockIds(blocks)
       /\ connections[i].toBlockId = blocks[b].id
       /\ ~blocks[b].isReserve
       /\ isActive(blocks, connections, b)

AllReserve(bs) == \A i \in 1..Len(bs) : bs[i].isReserve

\* C15: for the empty block collection the evaluation returns system
\* reliability 0 with no chains and no parallel groups, and the rendering
\* returns "G = 0" for both the general formula and the one with values; the
\* same results are returned when every block is a reserve block.
C15_EmptySystem ==
  AllReserve(blocks) =>
    /\ Evaluated =>
         /\ result.systemReliability = 0
         /\ result.details.chains = <<>>
         /\ result.details.parallelGroups = <<>>
    /\ Rendered =>
         /\ formula.general = Expr("zero", 0, <<>>)
         /\ formula.withValues = Expr("zero", 0, <<>>)

\* A rendered diagram of reserve blocks only, with connections.
C15_Witness ==
  /\ Rendered
  /\ Len(blocks) = MaxBlocks
  /\ AllReserve(blocks)
  /\ Len(connections) > 0

\* A rendered empty diagram.
C15_WitnessEmpty == Rendered /\ Len(blocks) = 0

\* The reliabilities surfaced for the clusters, multiplied up exactly.
RECURSIVE ChainProduct(_)
ChainProduct(chains) ==
  IF chains = <<>> THEN NumOne
  ELSE Mul(Num(Head(chains).reliability), ChainProduct(Tail(chains)))

EvaluateAgain(bs, conns) ==
  IF calculateSystemReliabilityThrows(bs, conns) THEN TypeError
  ELSE calculateSystemReliability(bs, conns)

RenderAgain(bs, conns) ==
  IF generateReliabilityFormulaThrows(bs, conns) THEN TypeError
  ELSE generateReliabilityFormula(bs, conns)

ClassifyAgain(bs, conns) ==
  [i \in 1..Len(bs) |-> isBlockConnected(bs[i].id, bs, conns, bs[i].isReserve)]

C18_FirstMainBlockActive ==
  Classified =>
    \A i \in 1..Len(blocks) : IsFirstMain(blocks, i) => active[i]

\* Three main blocks and no connections: the first is active, the others are not.
C18_Witness ==
  /\ Classified
  /\ NonReserveCount(blocks) = 3
  /\ connections = <<>>
  /\ active = <<TRUE, FALSE, FALSE>>

\* C19: with at least two non-reserve blocks, a non-reserve block is active
\* whenever some connection joins another block's right terminal to its left
\* terminal, recorded from the source to the block or mirrored.
C19_SignalInputActivates ==
  Classified /\ NonReserveCount(blocks) >= 2 =>
    \A b \in 1..Len(blocks) : \A src \in 1..Len(blocks) :
      /\ ~blocks[b].isReserve
      /\ src # b
      /\ SignalInto(connections, blocks[b].id, blocks[src].id)
      => active[b]

\* A later main block whose only connection is a mirrored signal input.
C19_Witness ==
  /\ Classified
  /\ NonReserveCount(blocks) >= 2
  /\ Len(connections) = 1
  /\ \E b \in 1..Len(blocks) : \E src \in 1..Len(blocks) :
       /\ ~blocks[b].isReserve
       /\ ~IsFirstMain(blocks, b)
       /\ src # b
       /\ connections[1].fromBlockId = blocks[b].id
       /\ connections[1].fromSide = "left"
       /\ connections[1].toBlockId = blocks[src].id
       /\ connections[1].toSide = "right"
       /\ active[b]

\* Some connection ties the given side of block x to the same side of a block.
HasTie(conns, side, x) ==
  \E i \in 1..Len(conns) :
    /\ conns[i].fromSide = side
    /\ conns[i].toSide = side
    /\ conns[i].fromBlockId = x \/ conns[i].toBlockId = x

\* Ids a caller may ask about: those of the blocks and one of no block.
AskedIds == 1..(MaxDrawnBlocks + 1)

\* C20: with at least two non-reserve blocks, a non-reserve block that is not
\* the minimum-numbered one, has no signal input, and lacks a left-left tie or
\* lacks a right-right tie is inactive; and with exactly one non-reserve block
\* the classification is false for every other id asked about as non-reserve.
C20_OtherBlocksInactive ==
  Classified =>
    /\ NonReserveCount(blocks) >= 2 =>
         \A b \in 1..Len(blocks) :
           /\ ~blocks[b].isReserve
           /\ ~IsFirstMain(blocks, b)
           /\ ~HasSignalInput(blocks, connections, blocks[b].id)
           /\ \/ ~HasTie(connections, "left", blocks[b].id)
              \/ ~HasTie(connections, "right", blocks[b].id)
           => ~active[b]
    /\ NonReserveCount(blocks) = 1 =>
         \A id \in AskedIds :
           (\E i \in 1..Len(blocks) : ~blocks[i].isReserve /\ blocks[i].id # id)
             => ~isBlockConnected(id, blocks, connections, FALSE)

\* A later main block with a left-left tie to the first block and nothing on
\* its right terminal: inactive.
C20_Witness ==
  /\ Classified
  /\ NonReserveCount(blocks) >= 2
  /\ \E b \in 1..Len(blocks) :
       /\ ~blocks[b].isReserve
       /\ ~IsFirstMain(blocks, b)
       /\ ~HasSignalInput(blocks, connections, blocks[b].id)
       /\ Tied(connections, "left", blocks[b].id, 1)
       /\ IsFirstMain(blocks, 1)
       /\ ~HasTie(connections, "right", blocks[b].id)
       /\ ~active[b]

---------------------------------------------------------------------------
(* Properties of the graph builder and of the reducers *)

\* The connections that join the right terminal of u to the left terminal of
\* v, recorded from u or from v.
SignalConnections(conns, u, v) ==
  {i \in 1..Len(conns) :
     \/ /\ conns[i].fromBlockId = u /\ conns[i].fromSide = "right"
        /\ conns[i].toBlockId = v /\ conns[i].toSide = "left"
     \/ /\ conns[i].fromBlockId = v /\ conns[i].fromSide = "left"
        /\ conns[i].toBlockId = u /\ conns[i].toSide = "right"}

Occurrences(s, x) == Cardinality({i \in 1..Len(s) : s[i] = x})

NamedIds(bs, conns) ==
  BlockIds(bs) \cup {conns[i].fromBlockId : i \in 1..Len(conns)}
               \cup {conns[i].toBlockId : i \in 1..Len(conns)}

\* C21: the adjacency of the graph has, for every block u, one entry u -> v
\* for each connection that joins u's right terminal to v's left terminal,
\* whichever end is recorded as from, and no other entry: left-left and
\* right-right connections add none, and the direction does not depend on the
\* orientation of the record.
C21_AdjacencyFromSignalEdges ==
  Evaluated =>
    /\ DOMAIN buildGraph(blocks, connections).adjacency = BlockIds(blocks)
    /\ \A u \in BlockIds(blocks) : \A v \in NamedIds(blocks, connections) :
         Occurrences(buildGraph(blocks, connections).adjacency[u], v)
           = Cardinality(SignalConnections(connections, u, v))
    /\ \A u \in BlockIds(blocks) :
         Range(buildGraph(blocks, connections).adjacency[u])
           \subseteq NamedIds(blocks, connections)

\* Two blocks with a mirrored signal 1 -> 2 (recorded from 2) and a bus tie:
\* the adjacency of block 1 is <<2>>, that of block 2 is empty.
C21_Witness ==
  /\ Evaluated
  /\ Len(blocks) = 2
  /\ Len(connections) = 2
  /\ connections[1].fromBlockId = 2 /\ connections[1].fromSide = "left"
  /\ connections[1].toBlockId = 1 /\ connections[1].toSide = "right"
  /\ connections[2].fromSide = connections[2].toSide
  /\ buildGraph(blocks, connections).adjacency[1] = <<2>>
  /\ buildGraph(blocks, connections).adjacency[2] = <<>>

\* The graph the evaluation built.
TheGraph == buildGraph(blocks, connections)

\* The clusters of the evaluation.
Clusters == SeqMap(LAMBDA chain : chain.blocks, result.details.chains)

\* The reduced edges of the blocks of a component, in its order: from the
\* class of the block's left terminal to the class of its right terminal.
TerminalEdges(component, conns) ==
  Let(TerminalClasses(component, conns), LAMBDA parent :
    [i \in 1..Len(component) |->
       <<find(parent, leftNode(component[i])), find(parent, rightNode(component[i]))>>])

\* The classes reached from the classes in seen along the given edges.
RECURSIVE Reach(_, _)
Reach(seen, edges) ==
  LET more == seen \cup {e[2] : e \in {x \in edges : x[1] \in seen}}
  IN IF more = seen THEN seen ELSE Reach(more, edges)

RECURSIVE WorkingPathProbability(_, _, _, _, _, _)
\* The probability that the working blocks join s to t, given that the blocks
\* of S among the first i - 1 work and the others of them have failed.
WorkingPathProbability(ps, edges, s, t, i, S) ==
  IF i > Len(ps)
  THEN IF t \in Reach({s}, {edges[j] : j \in S}) THEN NumOne ELSE NumZero
  ELSE LET working == WorkingPathProbability(ps, edges, s, t, i + 1, S \cup {i})
           failed == WorkingPathProbability(ps, edges, s, t, i + 1, S)
       IN IF working.e >= 0 /\ failed.e >= 0
          THEN Add(Mul(ps[i], working), Mul(Sub(NumOne, ps[i]), failed))
          ELSE NumZero

\* The probability, over independent block failures, that the working blocks
\* of the component form a directed path from class s to class t.
PathProbability(component, graph, conns, s, t) ==
  Let(TerminalEdges(component, conns), LAMBDA edges :
    WorkingPathProbability([i \in 1..Len(component) |->
                              Num(graph.blocks[component[i]].reliability)],
                           edges, s, t, 1, {}))

\* The reduction ended with one edge between two classes.
CollapsedToEdge(spEdges) == Len(spEdges) = 1 /\ spEdges[1].from # spEdges[1].to

\* C24: whenever the series-parallel reduction collapses a cluster to a single
\* edge between two distinct classes, the cluster's reliability equals, up to
\* the 6-decimal rounding of the intermediate results (one millionth per
\* block), the exact probability that working blocks form a directed path from
\* the edge's source class to its sink class.
C24_ReducedEdgeIsPathProbability ==
  Evaluated =>
    \A i \in 1..Len(Clusters) :
      Let(SpReduce(Clusters[i], TheGraph, connections), LAMBDA spEdges :
        CollapsedToEdge(spEdges) =>
          /\ result.details.chains[i].reliability = spEdges[1].reliability
          /\ Within(PathProbability(Clusters[i], TheGraph, connections,
                                    spEdges[1].from, spEdges[1].to),
                    result.details.chains[i].reliability,
                    Len(Clusters[i])))

\* A cluster of five blocks that collapsed to one edge.
C24_Witness ==
  /\ Evaluated
  /\ \E i \in 1..Len(Clusters) :
       /\ Len(Clusters[i]) = 5
       /\ CollapsedToEdge(SpReduce(Clusters[i], TheGraph, connections))
       /\ result.details.chains[i].reliability > 0

\* Entry blocks of a cluster: no signal from a block of the cluster enters
\* them; exit blocks: no signal leaves them for a block of the cluster.
IsEntry(cluster, id) ==
  \A src \in Range(cluster) : ~SignalInto(connections, id, src)

IsExit(cluster, id) ==
  \A dst \in Range(cluster) : ~SignalInto(connections, dst, id)

Entries(cluster) == {id \in Range(cluster) : IsEntry(cluster, id)}

Exits(cluster) == {id \in Range(cluster) : IsExit(cluster, id)}

\* The blocks of ids reached from the blocks in seen through ties of the side
\* among the blocks of ids.
RECURSIVE TiedClosure(_, _, _)
TiedClosure(seen, ids, side) ==
  LET more == seen \cup {y \in ids : \E x \in seen : Tied(connections, side, x, y)}
  IN IF more = seen THEN seen ELSE TiedClosure(more, ids, side)

\* At least two blocks, connected with one another through ties of the side.
IsBus(ids, side) ==
  /\ Cardinality(ids) >= 2
  /\ \A x \in ids : TiedClosure({x}, ids, side) = ids

\* The simple signal paths of a cluster that start at a block of starts:
\* every path found is extended by every block its last block feeds and that
\* it does not hold yet.
RECURSIVE SimplePathsFrom(_, _, _)
SimplePathsFrom(cluster, found, newest) ==
  LET longer == {Append(p, y) : p \in newest, y \in Range(cluster)} 
      more == {p \in longer :
                 /\ SignalInto(connections, p[Len(p)], p[Len(p) - 1])
                 /\ \A i \in 1..(Len(p) - 1) : p[i] # p[Len(p)]}
  IN IF more = {} THEN found ELSE SimplePathsFrom(cluster, found \cup more, more)

\* The simple signal paths of a cluster from an entry block to an exit block.
SimplePaths(cluster) ==
  Let({<<id>> : id \in Entries(cluster)}, LAMBDA starts :
    {p \in SimplePathsFrom(cluster, starts, starts) : p[Len(p)] \in Exits(cluster)})

SomePathsOverlap(paths) ==
  \E p \in paths : \E q \in paths : p # q /\ Range(p) \cap Range(q) # {}

\* The product over the paths of (1 - the product of the path's block
\* reliabilities), computed exactly.
RECURSIVE UnreliabilityOfPaths(_)
UnreliabilityOfPaths(paths) ==
  IF paths = {} THEN NumOne
  ELSE LET p == CHOOSE p \in paths : TRUE
       IN Mul(Sub(NumOne, Product([i \in 1..Len(p) |-> Num(TheGraph.blocks[p[i]].reliability)])),
              UnreliabilityOfPaths(paths \ {p}))

ModeOf(cluster) == analyzeComponent(cluster, TheGraph, connections).mode

C25_WitnessOverlap ==
  /\ Evaluated
  /\ \E i \in 1..Len(Clusters) :
       /\ Len(SpReduce(Clusters[i], TheGraph, connections)) # 1
       /\ IsBus(Entries(Clusters[i]), "left")
       /\ IsBus(Exits(Clusters[i]), "right")
       /\ SomePathsOverlap(SimplePaths(Clusters[i]))
       /\ ModeOf(Clusters[i]) = "groups"

AnalysisOf(cluster) == analyzeComponent(cluster, TheGraph, connections)

\* The blocks linked to the blocks in seen by a chain of pairs each sharing
\* both a left-left and a right-right tie.
RECURSIVE DoublyTiedClosure(_, _)
DoublyTiedClosure(seen, ids) ==
  LET more == seen \cup {y \in ids : \E x \in seen :
                           /\ Tied(connections, "left", x, y)
                           /\ Tied(connections, "right", x, y)}
  IN IF more = seen THEN seen ELSE DoublyTiedClosure(more, ids)

\* The reliability of one group: the block's own for a singleton, otherwise
\* 1 - the product of (1 - r) over its blocks.
GroupValue(group) ==
  IF Len(group) = 1 THEN Num(TheGraph.blocks[group[1]].reliability)
  ELSE Sub(NumOne, Product([j \in 1..Len(group) |->
                              Sub(NumOne, Num(TheGraph.blocks[group[j]].reliability))]))

RECURSIVE EveryChangeShrinks(_, _)
EveryChangeShrinks(edges, safety) ==
  \/ safety >= SAFETY_CAP
  \/ Let(ReduceOnce(edges), LAMBDA r :
       r.changed => /\ Len(r.edges) < Len(edges)
                    /\ EveryChangeShrinks(r.edges, safety + 1))

\* The number of turns the reduction loop takes on a cluster.
Turns(cluster) ==
  Let(InitialSpEdges(cluster, TheGraph, connections), LAMBDA spEdges :
    IF Len(spEdges) > 0 THEN ReduceLoop(spEdges, 0).safety ELSE 0)

NoRepeat(seq) == Cardinality(Range(seq)) = Len(seq)

\* C27: evaluation and rendering end with an answer on every input, signal
\* cycles, bus-tie cycles and self-loops included: no cluster, group or path
\* holds a block twice, no block is in two clusters, every turn of the
\* series-parallel loop that reports a change leaves fewer edges, and the loop
\* takes at most one turn more than the cluster has blocks, below the cap.
C27_TraversalsAndLoopEnd ==
  /\ Evaluated =>
       /\ result # NoResult
       /\ \A i \in 1..Len(Clusters) :
            /\ NoRepeat(Clusters[i])
            /\ \A j \in 1..Len(Clusters) :
                 i # j => Range(Clusters[i]) \cap Range(Clusters[j]) = {}
            /\ Let(AnalysisOf(Clusters[i]), LAMBDA an :
                 /\ \A g \in 1..Len(an.groups) : NoRepeat(an.groups[g])
                 /\ \A g \in 1..Len(an.parallelPaths) : NoRepeat(an.parallelPaths[g]))
            /\ EveryChangeShrinks(InitialSpEdges(Clusters[i], TheGraph, connections), 0)
            /\ Turns(Clusters[i]) <= Len(Clusters[i]) + 1
            /\ Turns(Clusters[i]) < SAFETY_CAP
  /\ Rendered => formula # NoFormula

\* A cluster holding a signal ring and a bus tie whose reduction takes three
\* turns or more.
C27_Witness ==
  /\ Evaluated
  /\ \E i \in 1..Len(Clusters) :
       /\ Turns(Clusters[i]) >= 3
       /\ \E x \in Range(Clusters[i]) : \E y \in Range(Clusters[i]) :
            /\ x # y
            /\ SignalInto(connections, x, y)
            /\ SignalInto(connections, y, x)
       /\ \E x \in Range(Clusters[i]) : \E y \in Range(Clusters[i]) :
            x # y /\ Tied(connections, "left", x, y)

\* An evaluated diagram with a block connected to itself.
C27_WitnessSelfLoop ==
  /\ Evaluated
  /\ \E i \in 1..Len(Clusters) : \E x \in Range(Clusters[i]) :
       SignalInto(connections, x, x)

---------------------------------------------------------------------------
(* Properties of the editor *)

\* The reserve checkbox of the selected block is switched on.
ReserveSwitchedOn ==
  /\ SelectedBlocks # <<>>
  /\ ~SelectedBlocks[1].isReserve
  /\ ReserveChange

\* C22: after the reserve checkbox of a block is switched on, no connection
\* of the connection collection touches that block, however many touched it
\* before.
C22_ReserveToggleClearsConnections ==
  [][ReserveSwitchedOn =>
       \A i \in 1..Len(connections') : ~Touches(connections'[i], selectedBlockId)]_vars

IdsOf(bs) == {bs[i].id : i \in 1..Len(bs)}

\* The numbers of the blocks are pairwise distinct positive integers.
NumbersDistinct ==
  /\ \A i \in 1..Len(blocks) : blocks[i].number >= 1
  /\ \A i \in 1..Len(blocks) : \A j \in 1..Len(blocks) :
       i # j => blocks[i].number # blocks[j].number

\* A block that was not in the collection before the step has 1 + the largest
\* number that was present, 1 if there was none.
NewBlockNumbered ==
  \A j \in 1..Len(blocks') :
    blocks'[j].id \notin IdsOf(blocks) => blocks'[j].number = MaxNumber(blocks) + 1

\* C23: in every state of the editor the numbers of the blocks are pairwise
\* distinct positive integers, and a new block receives 1 + the largest number
\* present (1 when the collection is empty).
C23_NumbersDistinctNewIsNext ==
  /\ []NumbersDistinct
  /\ [][NewBlockNumbered]_vars

\* C28: every add-block action, the toolbar button or the key A, adds exactly
\* one new block and keeps every block that existed before it.
C28_AddKeepsExistingBlocks ==
  [][(AddBlockButton \/ AddBlockKey) =>
       /\ Len(blocks') = Len(blocks) + 1
       /\ \A i \in 1..Len(blocks) : \E j \in 1..Len(blocks') : blocks'[j] = blocks[i]
       /\ \E j \in 1..Len(blocks') : blocks'[j].id \notin IdsOf(blocks)]_vars

\* C29: in every state of the editor both ends of every connection are ids of
\* blocks of the block collection.
C29_ConnectionsReferenceBlocks ==
  \A i \in 1..Len(connections) :
    /\ connections[i].fromBlockId \in IdsOf(blocks)
    /\ connections[i].toBlockId \in IdsOf(blocks)

\* The second click on a connection point: a connection is pending.
SecondClick ==
  /\ connectingFrom # NoPoint
  /\ \E i \in 1..Len(blocks) : \E side \in Sides :
       handleConnectionPointClick(blocks[i].id, side)

\* Two connections join the same pair of terminals, in either direction.
SameTerminals(c, d) ==
  \/ /\ c.fromBlockId = d.fromBlockId /\ c.fromSide = d.fromSide
     /\ c.toBlockId = d.toBlockId /\ c.toSide = d.toSide
  \/ /\ c.fromBlockId = d.toBlockId /\ c.fromSide = d.toSide
     /\ c.toBlockId = d.fromBlockId /\ c.toSide = d.fromSide

\* C30: a second click on a connection point leaves no connection pending,
\* and the connections after it are those before it, or those and one more
\* whose ends are two different blocks and whose pair of terminals no
\* connection before it joined in either direction; no state holds a
\* connection from a block to itself or two connections between the same pair
\* of terminals.
C30_ClicksCreateNoLoopNoDuplicate ==
  /\ [](\A i \in 1..Len(connections) :
          /\ connections[i].fromBlockId # connections[i].toBlockId
          /\ \A j \in 1..Len(connections) :
               i # j => ~SameTerminals(connections[i], connections[j]))
  /\ [][SecondClick =>
          /\ connectingFrom' = NoPoint
          /\ \/ connections' = connections
             \/ /\ Len(connections') = Len(connections) + 1
                /\ SubSeq(connections', 1, Len(connections)) = connections
                /\ LET created == connections'[Len(connections')]
                   IN /\ created.fromBlockId # created.toBlockId
                      /\ \A i \in 1..Len(connections) :
                           ~SameTerminals(created, connections[i])]_vars

\* Two connections between the same two blocks, on different terminals, and
\* no connection pending: the second was created next to the first.
C30_Witness ==
  /\ connectingFrom = NoPoint
  /\ Len(connections) >= 2
  /\ connections[1].fromBlockId = connections[2].toBlockId
  /\ connections[1].toBlockId = connections[2].fromBlockId
  /\ connections[1].fromSide = connections[2].toSide
  /\ connections[1].toSide # connections[2].fromSide

====
